---------------------------- MODULE Spec2Model ----------------------------
(***************************************************************************)
(* Verification model of web-video-subtitle.                               *)
(*                                                                         *)
(*   SpecStream : GeminiLiveSession, the streaming session                 *)
(*                (src/utils/gemini-live.ts): connection and reconnection  *)
(*   SpecTurn   : the same session receiving messages                      *)
(*   SpecAudio  : the same session with its audio capture                  *)
(*   SpecManual : the same session reconnected by manualReconnect()        *)
(*   SpecReconnect : the same session connected once and left to its       *)
(*                reconnection machine                                     *)
(*   SpecRetry  : the same, with timers that fire and connect attempts     *)
(*                that end (weak fairness)                                 *)
(*   SpecBatch  : the batch sessions GeminiAudioUnderstandingSession       *)
(*                (src/unnamed/part_000) and the earlier GeminiLiveSession *)
(*                (src/unnamed/part_001), driven by their public methods   *)
(*   Spec       : the content script (src/entrypoints/content.ts) and the  *)
(*                background service worker (src/unnamed/part_007)         *)
(*   SpecStale  : content script and background, with the session of the   *)
(*                tab capturing audio                                      *)
(*   SpecPlay   : content script and background on a page with translation *)
(*                enabled: play, pause and ended events                    *)
(*   SpecRegister : the content script finding the videos of its page      *)
(*   SpecPcm, SpecCombine : the audio helpers convertFloat32ToInt16PCM and *)
(*                combineAudioBuffers applied to their arguments           *)
(*   SpecPopup  : the settings popup (src/unnamed/part_006) and the API    *)
(*                key in chrome.storage.local                              *)
(*   SpecCoordinator : the message handlers of the background service      *)
(*                worker (src/unnamed/part_007) and the sessions of its    *)
(*                tabs                                                     *)
(*   SpecKey    : the popup and the coordinator sharing the stored key     *)
(*   SpecStop   : the coordinator stopping the sessions of its tabs        *)
(*                                                                         *)
(* JavaScript runs one task at a time: an action is one task (an event     *)
(* handler, a timer callback, a public method call) together with the      *)
(* microtasks it leaves behind, up to the next point where the code waits  *)
(* for the network, for storage or for a timer.                            *)
(***************************************************************************)
EXTENDS Integers, Sequences, FiniteSets, TLC

(***************************************************************************)
(* Bounds of the model.                                                    *)
(***************************************************************************)
\* samples are the multiples of 1 / Scale from -(Scale + 2) / Scale to
\* (Scale + 2) / Scale
Scale == 8
\* characters of a string typed into the popup
MaxKeyLen == 2
\* tabs with a content script
MaxTabs == 2
\* session objects of one tab that are created and not disconnected
MaxObjects == 2
\* handleStartSession calls suspended at once
MaxStarting == 2

\* samples of one buffer
MaxSamples == 2
\* buffers of one queue
MaxBuffers == 2

\* remote connections of one streaming session object that exist at once
\* (being opened, open, or closed locally with the close event still due)
MaxConns == 2
\* reconnection timeouts of one streaming session object pending at once
MaxTimeouts == 2
\* capture interval timers of one session object alive at once
MaxIntervals == 2
\* characters in the streaming turn buffer
MaxText == 3
\* audio chunks a batch session captures in one behaviour
MaxChunks == 9
\* generateContent requests in flight
MaxRequests == 2
\* video elements of the page
MaxVideos == 3
\* messages in flight between the content script and the background
MaxMessages == 2
\* videos of the page, and chunks its sessions capture, when the sessions
\* of the page capture audio
StaleVideos == 2
StaleChunks == 4
\* videos of the page when only play, pause and ended events are followed
PlayVideos == 1

VARIABLES
    live,        \* the GeminiLiveSession object: its fields
    timeouts,    \* pending setTimeout callbacks of attemptReconnection
    intervals,   \* number of live setInterval timers started by the session
    net,         \* the remote side: connections and pending ai.live.connect calls
    ev,          \* history: the last task that ran, what it saw and what it did
    hist,        \* history: counters the claims speak about
    batch,       \* a batch session object: its fields
    bIntervals,  \* number of live setInterval timers started by the batch session
    inflight,    \* generateContent requests awaiting their response
    bh,          \* history of the batch session: chunks captured and batches sent
    page,        \* the content script: isEnabled and the registered videos
    chan,        \* messages in flight between content script and background
    bg,          \* the background: activeSessions, storage, suspended handlers
    ch,          \* history of the content script: the last task and what it did
    played,      \* history: the video whose play event is the last event of the
                 \* page, 0 if there is none (kept where a claim asks for it)
    ret,         \* history: what the last call of manualReconnect() returned
                 \* (kept where a claim asks for it)
    calc,        \* a call of one of the audio helpers: its argument and result
    stopped,     \* history: the tabs whose STOP request or removal has been
                 \* handled with no START request issued since (kept where a
                 \* claim asks for it)
    storage,     \* chrome.storage.local: the value stored under apiKey
    popup,       \* the settings popup: its React state and its pending operation
    out,         \* what the last task wrote to the console, answered and
                 \* handed to the remote speech service
    coord        \* the background coordinator: activeSessions, the session
                 \* objects it created, its suspended handlers

stream_all == <<live, timeouts, intervals, net, ev, hist>>
batch_all == <<batch, bIntervals, inflight, bh>>
page_all == <<page, chan, bg, ch, played>>
key_all == <<storage, popup, out, coord>>
ext_all == <<ret, calc, stopped, key_all>>
rest_all == <<stream_all, batch_all, page_all, ret, calc, stopped>>
vars == <<live, timeouts, intervals, net, ev, hist, batch, bIntervals, inflight, bh,
          page, chan, bg, ch, played, ret, calc, stopped, storage, popup, out, coord>>

(***************************************************************************)
(* Helpers                                                                 *)
(***************************************************************************)
Min(a, b) == IF a < b THEN a ELSE b

RECURSIVE Pow2(_)
\* Math.pow(2, n) for a natural n
Pow2(n) == IF n = 0 THEN 1 ELSE 2 * Pow2(n - 1)

RemoveAt(s, i) == [j \in 1..(Len(s) - 1) |-> IF j < i THEN s[j] ELSE s[j + 1]]

\* String.prototype.trim() leaves a non-empty string
NotBlank(t) == \E i \in 1..Len(t) : t[i] /= " "

(***************************************************************************)
(* GeminiLiveSession (streaming)                                           *)
(***************************************************************************)
maxReconnectAttempts == 5
baseReconnectDelay == 1000
maxReconnectDelay == 30000

\* who awaits a pending ai.live.connect: a caller of connect(), the
\* reconnection timeout callback, manualReconnect()
Callers == {"user", "timer", "manual"}

LiveInit ==
    [ connectionState         |-> "disconnected",
      session                 |-> "null",    \* "null" | "open" | "closed"
      currentTurnText         |-> <<>>,
      analyserNode            |-> FALSE,     \* non-null?
      captureTimer            |-> FALSE,     \* non-null?
      isIntentionalDisconnect |-> FALSE,
      reconnectAttempts       |-> 0,
      reconnectTimeoutId      |-> "null",    \* "null" | "pending" | "fired"
      updateSubtitleCallback  |-> FALSE,     \* non-null?
      currentMediaStream      |-> FALSE ]    \* non-null?

NetInit == [ orphans |-> 0, closing |-> 0, pend |-> [c \in Callers |-> 0] ]

\* The session object with the timers and connections it owns, and the
\* texts a task has passed to the display callback.
Frame == [ s |-> live, ts |-> timeouts, iv |-> intervals, net |-> net, cb |-> <<>> ]

PendTotal(n) == n.pend["user"] + n.pend["timer"] + n.pend["manual"]

ConnCount(F) ==
    (IF F.s.session = "open" THEN 1 ELSE 0) + F.net.orphans + F.net.closing
        + PendTotal(F.net)

Bounded(F) ==
    /\ Len(F.ts) <= MaxTimeouts
    /\ ConnCount(F) <= MaxConns
    /\ F.iv <= MaxIntervals

Commit(F) ==
    /\ live' = F.s
    /\ timeouts' = F.ts
    /\ intervals' = F.iv
    /\ net' = F.net

reconnectDelay_doubled(n) == Min(baseReconnectDelay * Pow2(n), maxReconnectDelay)

\* the delay computed in attemptReconnection for attempt n
reconnectDelay(n) == Min(baseReconnectDelay * Pow2(n - 1), maxReconnectDelay)

\* attemptReconnection up to and including setTimeout
attemptReconnection(F) ==
    LET n == F.s.reconnectAttempts + 1 IN
    [F EXCEPT !.s.reconnectAttempts = n,
              !.s.reconnectTimeoutId = "pending",
              !.ts = Append(@, [attempt |-> n, delay |-> reconnectDelay(n)])]

handleConnectionClose_noflag(F) ==
    IF F.s.reconnectAttempts < maxReconnectAttempts
    THEN attemptReconnection([F EXCEPT !.s.connectionState = "reconnecting"])
    ELSE [F EXCEPT !.s.connectionState = "failed"]

handleConnectionClose_nosched(F) ==
    IF F.s.isIntentionalDisconnect
    THEN [F EXCEPT !.s.connectionState = "disconnected",
                   !.s.isIntentionalDisconnect = FALSE]
    ELSE IF F.s.reconnectAttempts < maxReconnectAttempts
    THEN [F EXCEPT !.s.connectionState = "reconnecting"]
    ELSE [F EXCEPT !.s.connectionState = "failed"]

handleConnectionClose(F) ==
    IF F.s.isIntentionalDisconnect
    THEN [F EXCEPT !.s.connectionState = "disconnected",
                   !.s.isIntentionalDisconnect = FALSE]
    ELSE IF F.s.reconnectAttempts < maxReconnectAttempts
    THEN attemptReconnection([F EXCEPT !.s.connectionState = "reconnecting"])
    ELSE [F EXCEPT !.s.connectionState = "failed"]

stopAudioProcessing(F) ==
    [F EXCEPT !.iv = IF F.s.captureTimer THEN @ - 1 ELSE @,
              !.s.captureTimer = FALSE,
              !.s.analyserNode = FALSE]

startAudioProcessing_nocapture(F) ==
    IF F.s.session = "null"
    THEN F
    ELSE [F EXCEPT !.s.currentMediaStream = TRUE,
                   !.s.analyserNode = TRUE]

\* startAudioProcessing(mediaStream) with startAudioCapture
startAudioProcessing(F) ==
    IF F.s.session = "null"
    THEN F
    ELSE [F EXCEPT !.s.currentMediaStream = TRUE,
                   !.s.analyserNode = TRUE,
                   !.s.captureTimer = TRUE,
                   !.iv = @ + 1]

\* connect() up to the await of ai.live.connect
connectBegin(F, c) ==
    [F EXCEPT !.s.connectionState = "connecting",
              !.s.updateSubtitleCallback = TRUE,
              !.net.pend[c] = @ + 1]

manualReconnect_noreset(F) ==
    IF F.s.connectionState = "connected" THEN F
    ELSE IF F.s.updateSubtitleCallback THEN connectBegin(F, "manual") ELSE F

\* manualReconnect() up to its return or its await of connect()
manualReconnect(F) ==
    IF F.s.connectionState = "connected" THEN F
    ELSE LET F0 == [F EXCEPT !.s.reconnectAttempts = 0]
         IN IF F0.s.updateSubtitleCallback THEN connectBegin(F0, "manual") ELSE F0

\* what that part of manualReconnect() returns; "awaiting" when it has not
\* returned but awaits connect()
manualReconnectReturn(F) ==
    IF F.s.connectionState = "connected" THEN "true"
    ELSE IF ~F.s.updateSubtitleCallback THEN "false"
    ELSE "awaiting"

onopen_noreset(F) == [F EXCEPT !.s.connectionState = "connected"]

onopen(F) ==
    [F EXCEPT !.s.connectionState = "connected",
              !.s.reconnectAttempts = 0]

\* what manualReconnect() returns once its connect() has resolved
manualReconnectResumeReturn(F) ==
    IF F.s.currentMediaStream /\ F.s.connectionState = "connected" THEN "true"
    ELSE IF F.s.connectionState = "connected" THEN "true" ELSE "false"

\* this.session = await ai.live.connect(...): the connection the field
\* held stays open, no longer referenced by the object
assignSession(F) ==
    [F EXCEPT !.net.orphans = IF F.s.session = "open" THEN @ + 1 ELSE @,
              !.s.session = "open"]

RECURSIVE appendParts(_, _)
\* for (const part of parts) if (part.text) currentTurnText += part.text
appendParts(t, parts) ==
    IF parts = <<>> THEN t
    ELSE appendParts(IF Head(parts) /= <<>> THEN t \o Head(parts) ELSE t, Tail(parts))

onmessage(F, m) ==
    IF ~m.serverContent THEN F
    ELSE LET t == appendParts(F.s.currentTurnText, m.parts) IN
         IF m.turnComplete /\ NotBlank(t)
         THEN [F EXCEPT !.s.currentTurnText = <<>>,
                        !.cb = IF F.s.updateSubtitleCallback THEN Append(@, t) ELSE @]
         ELSE [F EXCEPT !.s.currentTurnText = t]

onerror(F) == [F EXCEPT !.s.connectionState = "failed"]

disconnect(F) ==
    LET F1 == [F EXCEPT !.s.isIntentionalDisconnect = TRUE,
                        !.s.connectionState = "disconnected",
                        !.ts = IF F.s.reconnectTimeoutId = "pending"
                               THEN SubSeq(@, 1, Len(@) - 1) ELSE @,
                        !.s.reconnectTimeoutId = "null"]
        F2 == stopAudioProcessing(F1)
    IN [F2 EXCEPT !.net.closing = IF F2.s.session = "open" THEN @ + 1 ELSE @,
                  !.s.session = "null"]

(***************************************************************************)
(* The batch sessions: GeminiAudioUnderstandingSession (class              *)
(* "understanding") and the earlier batch GeminiLiveSession (class         *)
(* "legacy").  One record holds the fields of either class; a field a      *)
(* class does not have keeps its initial value.                            *)
(***************************************************************************)
batchDurationMs == 4000
chunkDurationMs == 1000
duration == 4000

Classes == {"understanding", "legacy"}

\* the object as its constructor leaves it
BatchNew(class) ==
    [ class                  |-> class,
      connectionState        |-> "disconnected",  \* understanding only
      genAI                  |-> FALSE,           \* non-null?
      config                 |-> class = "legacy",\* non-null? (legacy: set by the constructor)
      analyserNode           |-> FALSE,           \* non-null? (with audioContext)
      captureTimer           |-> FALSE,           \* non-null?
      audioBufferQueue       |-> <<>>,
      isProcessing           |-> FALSE,
      updateSubtitleCallback |-> FALSE,           \* non-null?
      accumulatedDurationMs  |-> 0 ]              \* understanding only

BhInit ==
    [ next     |-> 1,       \* the number of the next chunk captured
      runStart |-> 1,       \* the first chunk of the current startAudioProcessing
      ticks    |-> 0,       \* chunks captured since then
      fresh    |-> FALSE,   \* capture started on an empty queue, nothing in flight,
                            \* and has not been stopped since
      sent     |-> <<>>,    \* the batches submitted since then, in order
      last     |-> "other", \* the last task
      cb       |-> <<>> ]   \* the texts it passed to the display callback

\* no batch session object exists
BatchIdle ==
    /\ batch = BatchNew("understanding")
    /\ bIntervals = 0
    /\ inflight = <<>>
    /\ bh = BhInit

BFrame == [ o |-> batch, iv |-> bIntervals, fl |-> inflight, cb |-> <<>>, sub |-> <<>> ]

BCommit(B) ==
    /\ Len(B.fl) <= MaxRequests
    /\ batch' = B.o
    /\ bIntervals' = B.iv
    /\ inflight' = B.fl

\* connect(updateSubtitle); ok: new GoogleGenAI(...) does not throw
batchConnect(B, ok) ==
    IF B.o.class = "understanding"
    THEN IF ok
         THEN [B EXCEPT !.o.updateSubtitleCallback = TRUE,
                        !.o.config = TRUE,
                        !.o.genAI = TRUE,
                        !.o.connectionState = "connected"]
         ELSE [B EXCEPT !.o.updateSubtitleCallback = TRUE,
                        !.o.config = TRUE,
                        !.o.connectionState = "failed"]
    ELSE IF ok
         THEN [B EXCEPT !.o.genAI = TRUE, !.o.updateSubtitleCallback = TRUE]
         ELSE B

processAudioQueue_keepQueue(B) ==
    LET q == B.o.audioBufferQueue
        skip == IF B.o.class = "understanding"
                THEN q = <<>> \/ ~B.o.genAI \/ ~B.o.config
                ELSE B.o.isProcessing \/ q = <<>> \/ ~B.o.genAI
                         \/ ~B.o.updateSubtitleCallback
    IN IF skip THEN B
       ELSE [B EXCEPT !.o.isProcessing = TRUE,
                      !.o.accumulatedDurationMs = 0,
                      !.fl = Append(@, [chunks |-> q, own |-> TRUE, stopped |-> FALSE]),
                      !.sub = Append(@, q)]

\* the synchronous part of processAudioQueue, up to the await of generateContent
processAudioQueue(B) ==
    LET q == B.o.audioBufferQueue
        skip == IF B.o.class = "understanding"
                THEN q = <<>> \/ ~B.o.genAI \/ ~B.o.config
                ELSE B.o.isProcessing \/ q = <<>> \/ ~B.o.genAI
                         \/ ~B.o.updateSubtitleCallback
    IN IF skip THEN B
       ELSE [B EXCEPT !.o.isProcessing = TRUE,
                      !.o.audioBufferQueue = <<>>,
                      !.o.accumulatedDurationMs = 0,
                      !.fl = Append(@, [chunks |-> q, own |-> TRUE, stopped |-> FALSE]),
                      !.sub = Append(@, q)]

batchStopAudioProcessing(B) ==
    LET B1 == [B EXCEPT !.iv = IF B.o.captureTimer THEN @ - 1 ELSE @,
                        !.o.captureTimer = FALSE,
                        !.o.analyserNode = FALSE]
    IN IF B1.o.class = "understanding"
          /\ B1.o.audioBufferQueue /= <<>> /\ ~B1.o.isProcessing
       THEN processAudioQueue(B1)
       ELSE B1

batchDisconnect(B) ==
    IF B.o.class = "understanding"
    THEN LET B1 == batchStopAudioProcessing([B EXCEPT !.o.connectionState = "disconnected"])
         IN [B1 EXCEPT !.o.genAI = FALSE,
                       !.o.audioBufferQueue = <<>>,
                       !.o.accumulatedDurationMs = 0]
    ELSE LET B1 == batchStopAudioProcessing(B)
         IN [B1 EXCEPT !.o.genAI = FALSE,
                       !.o.updateSubtitleCallback = FALSE,
                       !.o.audioBufferQueue = <<>>,
                       !.o.isProcessing = FALSE]

\* startAudioProcessing(mediaStream) with startAudioCapture
batchStartAudioProcessing(B) ==
    IF ~B.o.genAI THEN B
    ELSE [B EXCEPT !.o.analyserNode = TRUE,
                   !.o.audioBufferQueue = IF B.o.class = "understanding" THEN <<>> ELSE @,
                   !.o.accumulatedDurationMs = 0,
                   !.o.captureTimer = TRUE,
                   !.iv = @ + 1]

thresholdReached_late(o) ==
    IF o.class = "understanding"
    THEN o.accumulatedDurationMs > batchDurationMs
    ELSE Len(o.audioBufferQueue) > duration \div chunkDurationMs

\* the test of the interval callback: enough audio has accumulated
thresholdReached(o) ==
    IF o.class = "understanding"
    THEN o.accumulatedDurationMs >= batchDurationMs
    ELSE Len(o.audioBufferQueue) >= duration \div chunkDurationMs

\* the interval callback of startAudioCapture capturing chunk c
batchTick(B, c) ==
    IF ~B.o.analyserNode THEN B
    ELSE LET B1 == [B EXCEPT !.o.audioBufferQueue = Append(@, c),
                             !.o.accumulatedDurationMs =
                                 IF B.o.class = "understanding"
                                 THEN @ + chunkDurationMs ELSE @]
         IN IF thresholdReached(B1.o) /\ ~B1.o.isProcessing
            THEN processAudioQueue(B1)
            ELSE B1

batchResponse_nofinally(B, i, outcome) ==
    LET r == B.fl[i]
        B1 == [B EXCEPT !.fl = RemoveAt(@, i)]
        deliver == outcome = "text" /\ B.o.updateSubtitleCallback
    IN [B1 EXCEPT !.cb = IF deliver THEN Append(@, r.chunks) ELSE @,
                  !.o.isProcessing = IF outcome = "error" THEN @ ELSE FALSE]

\* processAudioQueue after the await: the response of the i-th request in
\* flight arrives; outcome "text" (a non-blank text), "blank", or "error"
\* (the request fails)
batchResponse(B, i, outcome) ==
    LET r == B.fl[i]
        B1 == [B EXCEPT !.fl = RemoveAt(@, i)]
        \* legacy: calling the null callback throws, and the catch logs it
        deliver == outcome = "text" /\ B.o.updateSubtitleCallback
    IN [B1 EXCEPT !.cb = IF deliver THEN Append(@, r.chunks) ELSE @,
                  !.o.isProcessing = FALSE]

Outcomes == {"text", "blank", "error"}

(***************************************************************************)
(* The content script (content.ts) and the background service worker       *)
(* (part_007).  Videos are numbered in the order they are registered,      *)
(* which is the iteration order of the videoInstances Map.  A suspended    *)
(* async function is carried by the message it awaits the answer of: the   *)
(* request names the awaiting call and the response returns it.            *)
(***************************************************************************)
Videos == 1..MaxVideos

\* the VideoInfo registerVideoElement creates
VideoInfo ==
    [ audioStream          |-> FALSE,   \* non-null?
      audioProcessingTimer |-> FALSE,   \* non-null? (with audioContext)
      liveTimers           |-> 0,       \* setInterval timers not cleared
      isCapturing          |-> FALSE,
      subtitleElement      |-> FALSE ]  \* non-null?

PageInit ==
    [ isEnabled  |-> FALSE,
      registered |-> 0,                             \* size of videoInstances
      video      |-> [v \in Videos |-> VideoInfo],
      listeners  |-> [v \in Videos |-> 0] ]         \* play listeners attached to element v

registerVideoElement_nocheck(pg, v) ==
    [pg EXCEPT !.registered = IF v <= @ THEN @ ELSE @ + 1,
               !.video[v] = VideoInfo,
               !.listeners[v] = @ + 1]

\* registerVideoElement(video) for element v: a registered one, or the next
\* new one
registerVideoElement(pg, v) ==
    IF v <= pg.registered THEN pg
    ELSE [pg EXCEPT !.registered = @ + 1,
                    !.video[v] = VideoInfo,
                    !.listeners[v] = @ + 1]

RECURSIVE detectExistingVideos(_, _)
\* detectExistingVideos on a page with the elements 1..n
detectExistingVideos(pg, n) ==
    IF n = 0 THEN pg ELSE registerVideoElement(detectExistingVideos(pg, n - 1), n)
ChanInit == [ toBackground |-> <<>>, toContent |-> <<>> ]
BgInit == [ activeSessions |-> FALSE,   \* has(tabId)
            apiKey |-> FALSE,           \* storage.local holds an apiKey
            storageGet |-> <<>> ]       \* handleStartSession calls awaiting storage.local.get
ChInit == [ last |-> "other", v |-> 0, updated |-> {}, stale |-> FALSE ]

PageIdle ==
    /\ page = PageInit
    /\ chan = ChanInit
    /\ bg = BgInit
    /\ ch = ChInit
    /\ played = 0

\* a content-script task: the page and the requests it sends
PFrame == [ pg |-> page, out |-> <<>> ]

Request(type, v, other) == [ type |-> type, v |-> v, other |-> other ]
Response(r, success) ==
    [ type |-> r.type, v |-> r.v, other |-> r.other, success |-> success, stale |-> FALSE ]

contentStopAudioProcessing(P, w) ==
    [P EXCEPT !.pg.video[w].liveTimers =
                  IF P.pg.video[w].audioProcessingTimer THEN @ - 1 ELSE @,
              !.pg.video[w].audioProcessingTimer = FALSE]

\* callers of stopAudioCapture that do not await it: the pause and ended
\* listeners, the toggle listener
PauseListener == 0
ToggleListener == MaxVideos + 1

\* stopAudioCapture(w) up to its await, called by the task of video v or by
\* a listener v
stopAudioCapture(P, v, w) ==
    IF ~P.pg.video[w].isCapturing THEN P
    ELSE LET P1 == contentStopAudioProcessing(P, w)
         IN [P1 EXCEPT !.out = Append(@, Request("STOP_GEMINI_SESSION", v, w))]

\* stopAudioCapture(w) after its await
stopAudioCaptureResume(P, w) ==
    [P EXCEPT !.pg.video[w].subtitleElement = FALSE,
              !.pg.video[w].audioStream = FALSE,
              !.pg.video[w].isCapturing = FALSE]

captureAndConnect_nocheck(P, v, ok) ==
    IF P.pg.video[v].isCapturing THEN P
    ELSE [P EXCEPT !.pg.video[v].audioStream = ok,
                   !.pg.video[v].isCapturing = TRUE,
                   !.out = Append(@, Request("START_GEMINI_SESSION", v, 0))]

\* startAudioCapture(v) after its loop: ok = captureAudioFromVideo succeeds
captureAndConnect(P, v, ok) ==
    IF P.pg.video[v].isCapturing \/ ~ok THEN P
    ELSE [P EXCEPT !.pg.video[v].audioStream = TRUE,
                   !.pg.video[v].isCapturing = TRUE,
                   !.out = Append(@, Request("START_GEMINI_SESSION", v, 0))]

\* the loop of startAudioCapture(v) from the i-th entry of videoInstances
RECURSIVE stopOthers(_, _, _, _)
stopOthers(P, v, i, ok) ==
    IF i > P.pg.registered THEN captureAndConnect(P, v, ok)
    ELSE IF i /= v /\ P.pg.video[i].isCapturing
         THEN stopAudioCapture(P, v, i)
         ELSE stopOthers(P, v, i + 1, ok)

startAudioCapture(P, v, ok) ==
    IF ~P.pg.isEnabled THEN P ELSE stopOthers(P, v, 1, ok)

\* startAudioCapture(v) after the await of setupGeminiConnection
startAudioCaptureResume(P, v, success) ==
    IF ~success THEN P
    ELSE LET P1 == [P EXCEPT !.pg.video[v].subtitleElement = TRUE]
         IN IF P1.pg.video[v].audioStream
            THEN [P1 EXCEPT !.pg.video[v].audioProcessingTimer = TRUE,
                            !.pg.video[v].liveTimers = @ + 1]
            ELSE P1

\* the forEach of the TOGGLE_TRANSLATION listener from video i on
RECURSIVE stopAll(_, _)
stopAll(P, i) ==
    IF i > P.pg.registered THEN P
    ELSE stopAll(stopAudioCapture(P, ToggleListener, i), i + 1)

\* the videos the TRANSCRIPTION_RESULT listener updates
sinksUpdated(pg) ==
    { v \in 1..pg.registered : pg.video[v].subtitleElement /\ pg.video[v].isCapturing }

(***************************************************************************)
(* History                                                                 *)
(***************************************************************************)
NoEvent ==
    [ kind |-> "other", arg |-> "", afterDisconnect |-> FALSE, attempts |-> 0,
      sched |-> 0, cb |-> <<>>, turn |-> <<>> ]

\* the record of a task that took frame F to frame G
Event(kind, arg, F, G, turn) ==
    [ kind |-> kind, arg |-> arg,
      afterDisconnect |-> hist.disconnectCalled,
      attempts |-> F.s.reconnectAttempts,
      sched |-> Len(G.ts) - Len(F.ts),
      cb |-> G.cb, turn |-> turn ]

\* a task no claim asks about leaves no record
Quiet == NoEvent

(***************************************************************************)
(* The audio helpers.  A sample is a Float32 value n / Scale, held as its  *)
(* numerator n; the products below are exact in double precision.         *)
(***************************************************************************)
Max(a, b) == IF a > b THEN a ELSE b

\* sample * 0x8000 and sample * 0x7FFF
H8000 == 32768
H7FFF == 32767

\* the number p / q (q > 0) with its fraction dropped: ToIntegerOrInfinity
Truncate(p, q) == IF p >= 0 THEN p \div q ELSE -((-p) \div q)

\* ToInt16: the integer modulo 2^16, read as a signed 16-bit value
ToInt16(k) ==
    LET m == k % 65536
    IN IF m >= 32768 THEN m - 65536 ELSE m

convertSample_noclamp(n) ==
    ToInt16(Truncate(IF n < 0 THEN n * H8000 ELSE n * H7FFF, Scale))

\* one round of the loop of convertFloat32ToInt16PCM: the store into the
\* Int16Array converts the product with ToInt16
convertSample(n) ==
    LET sample == Max(-Scale, Min(Scale, n))
    IN ToInt16(Truncate(IF sample < 0 THEN sample * H8000 ELSE sample * H7FFF, Scale))

convertFloat32ToInt16PCM(float32Data) ==
    [i \in 1..Len(float32Data) |-> convertSample(float32Data[i])]

\* combined.set(buffer, offset)
SetAt(combined, buffer, offset) ==
    [i \in 1..Len(combined) |->
        IF i > offset /\ i <= offset + Len(buffer) THEN buffer[i - offset] ELSE combined[i]]

RECURSIVE TotalLength(_)
\* buffers.reduce((sum, buf) => sum + buf.length, 0)
TotalLength(buffers) ==
    IF buffers = <<>> THEN 0 ELSE Len(Head(buffers)) + TotalLength(Tail(buffers))

RECURSIVE CopyAll(_, _, _)
\* for (const buffer of buffers) { combined.set(buffer, offset); offset += buffer.length }
CopyAll(combined, buffers, offset) ==
    IF buffers = <<>> THEN combined
    ELSE CopyAll(SetAt(combined, Head(buffers), offset), Tail(buffers),
                 offset + Len(Head(buffers)))

RECURSIVE CopyAll_nooffset(_, _, _)
CopyAll_nooffset(combined, buffers, offset) ==
    IF buffers = <<>> THEN combined
    ELSE CopyAll_nooffset(SetAt(combined, Head(buffers), offset), Tail(buffers), offset)

combineAudioBuffers_nooffset(buffers) ==
    CopyAll_nooffset([i \in 1..TotalLength(buffers) |-> 0], buffers, 0)

\* combineAudioBuffers of GeminiAudioUnderstandingSession
combineAudioBuffers(buffers) ==
    CopyAll([i \in 1..TotalLength(buffers) |-> 0], buffers, 0)

\* combineAudioBuffers of the earlier GeminiLiveSession: it throws for an
\* empty list and returns the buffer itself for a list of one
liveCombineAudioBuffers(buffers) ==
    IF Len(buffers) = 0 THEN [threw |-> TRUE, value |-> <<>>]
    ELSE IF Len(buffers) = 1 THEN [threw |-> FALSE, value |-> buffers[1]]
    ELSE [threw |-> FALSE,
          value |-> CopyAll([i \in 1..TotalLength(buffers) |-> 0], buffers, 0)]

\* no helper has been called
CalcIdle ==
    [ op |-> "none", input |-> <<>>, output |-> <<>>, threw |-> FALSE, done |-> FALSE ]

(***************************************************************************)
(* The API key: the settings popup and chrome.storage.local.  A string is  *)
(* the sequence of its characters.                                         *)
(***************************************************************************)
KeyChars == {" ", "a"}

RECURSIVE trimStart(_)
trimStart(s) == IF s /= <<>> /\ Head(s) = " " THEN trimStart(Tail(s)) ELSE s

RECURSIVE trimEnd(_)
trimEnd(s) ==
    IF s /= <<>> /\ s[Len(s)] = " " THEN trimEnd(SubSeq(s, 1, Len(s) - 1)) ELSE s

\* String.prototype.trim
trim(s) == trimEnd(trimStart(s))

\* a text written to the console, shown, or sent in an answer: a literal of
\* the source, or the value of a variable
Lit(s) == [ lit |-> s, val |-> <<>> ]
Val(v) == [ lit |-> "", val |-> v ]
NoText == Lit("")

\* the error a rejected chrome.storage call carries, and its message
StorageError == Lit("storage error")

\* console.log, console.warn and console.error: the message and its argument
Log(message, arg) == [ message |-> message, arg |-> arg ]

(***************************************************************************)
(* The background coordinator (src/unnamed/part_007) and its tabs          *)
(***************************************************************************)
Tabs == 1..MaxTabs

\* sender.tab?.id of a message that comes from no tab
NoTab == 0

\* the object a handler returns; "rejected" when its promise rejects
Ack(success, error) == [ kind |-> "ack", success |-> success, error |-> error, data |-> NoText ]
Rejected == [ kind |-> "rejected", success |-> FALSE, error |-> NoText, data |-> NoText ]

\* the error a throwing GoogleGenAI constructor carries
SdkError == Lit("sdk error")

\* activeSessions.get(tabId): "none", or the connectionState of the session
\* object recorded for the tab ("connected" | "failed")
CoordInit ==
    [ activeSessions |-> [t \in Tabs |-> "none"],
      unrecorded     |-> [t \in Tabs |-> 0],   \* session objects of the tab that are created,
                                               \* not disconnected and not in activeSessions
      starting       |-> <<>> ]                \* handleStartSession calls awaiting storage.local.get

\* a frame of the coordinator: its state, the storage, the console, the
\* answers, the audio handed to the remote speech service
CFrame == [ c |-> coord, st |-> storage, log |-> <<>>, acks |-> <<>>, sent |-> <<>> ]

\* the listener of runtime.onMessage logs the type and dispatches
received(C, type) ==
    [C EXCEPT !.log = Append(@, Log("Background received message:", Lit(type)))]

Answer(C, ack) == [C EXCEPT !.acks = Append(@, ack)]
Write(C, message, arg) == [C EXCEPT !.log = Append(@, Log(message, arg))]

\* handleGetGeminiConfig, with its storage read answered
handleGetGeminiConfig(C, ok) ==
    IF ok
    THEN Answer(C, [Ack(TRUE, NoText) EXCEPT !.data = Val(C.st)])
    ELSE Answer(Write(C, "Error getting Gemini config:", StorageError),
                Ack(FALSE, Lit("Failed to retrieve configuration")))

handleSetApiKey_logkey(C, apiKey, ok) ==
    IF apiKey = <<>> THEN Answer(C, Ack(FALSE, Lit("Invalid API key")))
    ELSE IF ok
    THEN Answer(Write([C EXCEPT !.st = apiKey], "API key stored successfully", Val(apiKey)),
                Ack(TRUE, NoText))
    ELSE Answer(C, Rejected)

\* handleSetApiKey, with its storage write answered: the rejection of the
\* write is the rejection of the handler, which the listener returns
\* without awaiting it
handleSetApiKey(C, apiKey, ok) ==
    IF apiKey = <<>> THEN Answer(C, Ack(FALSE, Lit("Invalid API key")))
    ELSE IF ok
    THEN Answer(Write([C EXCEPT !.st = apiKey], "API key stored successfully", NoText),
                Ack(TRUE, NoText))
    ELSE Answer(C, Rejected)

\* handleValidateApiKey
handleValidateApiKey(C, apiKey) ==
    LET isValid == /\ apiKey /= <<>>
                   /\ Len(apiKey) >= 4 /\ SubSeq(apiKey, 1, 4) = <<"A", "I", "z", "a">>
                   /\ Len(apiKey) > 20
    IN Answer(C, [Ack(TRUE, NoText) EXCEPT !.data =
                      Lit(IF isValid THEN "API key format is valid"
                          ELSE "Invalid API key format")])

\* handleStartSession up to its return or its await of storage.local.get
handleStartSession(C, tabId) ==
    IF tabId = NoTab THEN Answer(C, Ack(FALSE, Lit("No tab ID provided")))
    ELSE IF C.c.activeSessions[tabId] /= "none"
    THEN Answer(Write(C, "Session already exists for tab", NoText), Ack(TRUE, NoText))
    ELSE [C EXCEPT !.c.starting = Append(@, tabId)]

Remove(s, i) == SubSeq(s, 1, i - 1) \o SubSeq(s, i + 1, Len(s))

\* new GeminiAudioUnderstandingSession(apiKey), its connect(), which catches
\* what the GoogleGenAI constructor throws, and activeSessions.set: the
\* object the map held for the tab is no longer recorded
newSession(C, tabId, connected) ==
    LET C1 == Write(Write(C, "GeminiAudioUnderstandingSession created", NoText),
                    "Initializing Gemini Audio Understanding session...", NoText)
        C2 == IF connected
              THEN Write(C1, "Gemini Audio Understanding session initialized", NoText)
              ELSE Write(C1, "Failed to initialize Gemini session:", SdkError)
    IN [C2 EXCEPT !.c.unrecorded[tabId] =
                      IF C.c.activeSessions[tabId] /= "none" THEN @ + 1 ELSE @,
                  !.c.activeSessions[tabId] =
                      IF connected THEN "connected" ELSE "failed"]

handleStartSessionResume_nokeycheck(C, i, ok, connected) ==
    LET tabId == C.c.starting[i]
        C0 == [C EXCEPT !.c.starting = Remove(@, i)]
    IN IF ~ok
       THEN Answer(Write(C0, "Error starting Gemini session:", StorageError),
                   Ack(FALSE, StorageError))
       ELSE LET C1 == newSession(Write(C0, "[Background] Starting Gemini session for tab", NoText),
                                 tabId, connected)
            IN Answer(Write(C1, "[Background] Gemini session started for tab", NoText),
                      Ack(TRUE, NoText))

\* handleStartSession after the await, for the i-th suspended call: the
\* read failed (catch), found no key, or found the key of the new session
handleStartSessionResume(C, i, ok, connected) ==
    LET tabId == C.c.starting[i]
        C0 == [C EXCEPT !.c.starting = Remove(@, i)]
    IN IF ~ok
       THEN Answer(Write(C0, "Error starting Gemini session:", StorageError),
                   Ack(FALSE, StorageError))
       ELSE IF C0.st = <<>>
       THEN Answer(C0, Ack(FALSE, Lit("No API key configured")))
       ELSE LET C1 == newSession(Write(C0, "[Background] Starting Gemini session for tab", NoText),
                                 tabId, connected)
            IN Answer(Write(C1, "[Background] Gemini session started for tab", NoText),
                      Ack(TRUE, NoText))

\* session.disconnect() of the object recorded for the tab
sessionDisconnect(C, tabId) ==
    Write(Write(C, "Audio processing stopped", NoText),
          "Gemini Audio Understanding session disconnected", NoText)

\* handleStopSession
handleStopSession(C, tabId) ==
    IF tabId = NoTab THEN Answer(C, Ack(FALSE, Lit("No tab ID provided")))
    ELSE IF C.c.activeSessions[tabId] = "none" THEN Answer(C, Ack(TRUE, NoText))
    ELSE LET C1 == sessionDisconnect(
                       Write(C, "[Background] Stopping Gemini session for tab", NoText), tabId)
             C2 == [C1 EXCEPT !.c.activeSessions[tabId] = "none"]
         IN Answer(Write(C2, "[Background] Gemini session stopped for tab", NoText),
                   Ack(TRUE, NoText))

\* sendAudioData of GeminiAudioUnderstandingSession: it warns and hands
\* nothing to the remote service
sendAudioData(C, tabId) ==
    Write(C, "sendAudioData called but batch mode captures audio directly", NoText)

\* handleAudioChunk
handleAudioChunk(C, tabId) ==
    IF tabId = NoTab THEN Answer(C, Ack(FALSE, Lit("No tab ID provided")))
    ELSE IF C.c.activeSessions[tabId] = "none"
    THEN Answer(C, Ack(FALSE, Lit("No active session for this tab")))
    ELSE Answer(sendAudioData(C, tabId), Ack(TRUE, NoText))

\* the default branch of the switch
unknownMessage(C, type) ==
    Answer(Write(C, "Unknown message type:", Lit(type)),
           Ack(FALSE, Lit("Unknown message type")))

\* the listener of tabs.onRemoved
onRemoved(C, tabId) ==
    IF C.c.activeSessions[tabId] = "none" THEN C
    ELSE LET C1 == sessionDisconnect(
                       Write(C, "[Background] Tab closed, cleaning up session", NoText), tabId)
         IN [C1 EXCEPT !.c.activeSessions[tabId] = "none"]

\* useState of App: nothing typed, nothing loaded
PopupInit ==
    [ apiKey   |-> <<>>,
      savedKey |-> <<>>,
      error    |-> "",
      success  |-> "",
      loading  |-> FALSE,
      pending  |-> "none",   \* the storage call handleSave or handleClear awaits
      arg      |-> <<>> ]    \* the key that call writes

OutInit == [ log |-> <<>>, acks |-> <<>>, sent |-> <<>> ]

KeyIdle == storage = <<>> /\ popup = PopupInit /\ out = OutInit /\ coord = CoordInit

\* a frame of the popup: its state, the storage, the console
KFrame == [ p |-> popup, st |-> storage, log |-> <<>> ]

\* loadSettings of the mount effect, with its storage read answered
loadSettings(K, ok) ==
    IF ok
    THEN [K EXCEPT !.p.apiKey = IF K.st /= <<>> THEN K.st ELSE @,
                   !.p.savedKey = IF K.st /= <<>> THEN K.st ELSE @]
    ELSE [K EXCEPT !.p.error = "Failed to load settings",
                   !.log = Append(@, Log("Storage error:", StorageError))]

handleSave_notrim(K) ==
    IF K.p.apiKey = <<>>
    THEN [K EXCEPT !.p.error = "API key cannot be empty", !.p.success = ""]
    ELSE [K EXCEPT !.p.loading = TRUE, !.p.error = "", !.p.success = "",
                   !.p.pending = "set", !.p.arg = K.p.apiKey]

\* handleSave up to its return or its await of storage.local.set
handleSave(K) ==
    LET trimmedKey == trim(K.p.apiKey)
    IN IF trimmedKey = <<>>
       THEN [K EXCEPT !.p.error = "API key cannot be empty", !.p.success = ""]
       ELSE [K EXCEPT !.p.loading = TRUE, !.p.error = "", !.p.success = "",
                      !.p.pending = "set", !.p.arg = trimmedKey]

\* handleSave after the await: the write done, or the catch; then finally
handleSaveResume(K, ok) ==
    LET K1 == IF ok
              THEN [K EXCEPT !.st = K.p.arg,
                             !.p.savedKey = K.p.arg,
                             !.p.success = "API key saved successfully!"]
              ELSE [K EXCEPT !.p.error = "Failed to save API key",
                             !.log = Append(@, Log("Save error:", StorageError))]
    IN [K1 EXCEPT !.p.loading = FALSE, !.p.pending = "none", !.p.arg = <<>>]

\* handleClear up to its await of storage.local.remove
handleClear(K) ==
    [K EXCEPT !.p.loading = TRUE, !.p.error = "", !.p.success = "",
              !.p.pending = "remove"]

handleClearResume_nofinally(K, ok) ==
    IF ok
    THEN [K EXCEPT !.st = <<>>, !.p.apiKey = <<>>, !.p.savedKey = <<>>,
                   !.p.success = "API key cleared successfully!",
                   !.p.loading = FALSE, !.p.pending = "none"]
    ELSE [K EXCEPT !.p.error = "Failed to clear API key",
                   !.log = Append(@, Log("Clear error:", StorageError)),
                   !.p.pending = "none"]

\* handleClear after the await: the removal done, or the catch; then finally
handleClearResume(K, ok) ==
    LET K1 == IF ok
              THEN [K EXCEPT !.st = <<>>,
                             !.p.apiKey = <<>>,
                             !.p.savedKey = <<>>,
                             !.p.success = "API key cleared successfully!"]
              ELSE [K EXCEPT !.p.error = "Failed to clear API key",
                             !.log = Append(@, Log("Clear error:", StorageError))]
    IN [K1 EXCEPT !.p.loading = FALSE, !.p.pending = "none"]

\* manualReconnect() has not been called
RetInit == [ of |-> "none", value |-> "" ]

\* the state outside the part of the program a specification is about
ExtIdle == ret = RetInit /\ calc = CalcIdle /\ stopped = {} /\ KeyIdle

HistInit ==
    [ turnFragments    |-> <<>>,   \* fragments received since the last turn-complete
      failedAttempts   |-> 0,      \* automatic attempts failed in a row: no open and
                                   \* no connect() or manualReconnect() call since
      exhausted        |-> FALSE,  \* five or more of them
      disconnectCalled |-> FALSE ] \* disconnect() called, no close event since

(***************************************************************************)
(* Actions of the streaming session                                        *)
(***************************************************************************)
StreamIdle ==
    /\ live = LiveInit
    /\ timeouts = <<>>
    /\ intervals = 0
    /\ net = NetInit
    /\ ev = NoEvent
    /\ hist = HistInit

InitStream == StreamIdle /\ BatchIdle /\ PageIdle /\ ExtIdle

\* a caller calls connect(updateSubtitle)
Connect ==
    LET G == connectBegin(Frame, "user") IN
    /\ Bounded(G)
    /\ Commit(G)
    /\ ev' = Quiet
    /\ hist' = [hist EXCEPT !.failedAttempts = 0, !.exhausted = FALSE]

\* ai.live.connect opens the connection: onopen, then the awaiting code resumes
ConnectResolve(c) ==
    /\ net.pend[c] > 0
    /\ LET F0 == [Frame EXCEPT !.net.pend[c] = @ - 1]
           F1 == assignSession(onopen(F0))
           G  == IF c \in {"timer", "manual"}
                    /\ F1.s.currentMediaStream /\ F1.s.connectionState = "connected"
                 THEN startAudioProcessing(F1)
                 ELSE F1
       IN /\ Bounded(G)
          /\ Commit(G)
          /\ ev' = IF c = "timer" /\ live.currentMediaStream
                   THEN Event("open", c, Frame, G, <<>>)
                   ELSE Quiet
    /\ hist' = [hist EXCEPT !.failedAttempts = 0]

\* ai.live.connect rejects
ConnectReject(c) ==
    /\ net.pend[c] > 0
    /\ LET F0 == [Frame EXCEPT !.net.pend[c] = @ - 1]
           retry == F0.s.reconnectAttempts < maxReconnectAttempts
           G  == IF c /= "timer" THEN F0
                 ELSE IF retry THEN attemptReconnection(F0)
                 ELSE [F0 EXCEPT !.s.connectionState = "failed"]
       IN /\ Bounded(G)
          /\ Commit(G)
          /\ ev' = Event("reject", c, Frame, G, <<>>)
          /\ hist' = IF c = "timer"
                     THEN [hist EXCEPT !.failedAttempts = @ + 1,
                                       !.exhausted =
                                           @ \/ hist.failedAttempts + 1 >= maxReconnectAttempts]
                     ELSE hist

\* the callback of the i-th pending reconnection timeout runs
ReconnectTimeout(i) ==
    /\ i \in 1..Len(timeouts)
    /\ LET F0 == [Frame EXCEPT !.ts = RemoveAt(@, i),
                               !.s.reconnectTimeoutId =
                                   IF i = Len(timeouts) /\ @ = "pending"
                                   THEN "fired" ELSE @]
           G  == IF F0.s.updateSubtitleCallback THEN connectBegin(F0, "timer") ELSE F0
       IN /\ Bounded(G)
          /\ Commit(G)
          /\ ev' = Quiet
    /\ UNCHANGED hist

\* the remote side closes an open connection: onclose
RemoteClose(which) ==
    /\ \/ which = "session" /\ live.session = "open"
       \/ which = "orphan" /\ net.orphans > 0
    /\ LET F0 == IF which = "session"
                 THEN [Frame EXCEPT !.s.session = "closed"]
                 ELSE [Frame EXCEPT !.net.orphans = @ - 1]
           G  == handleConnectionClose(F0)
       IN /\ Bounded(G)
          /\ Commit(G)
          /\ ev' = Event("close", "remote", Frame, G, <<>>)
          /\ hist' = [hist EXCEPT !.disconnectCalled = FALSE]

\* the close event of a connection that disconnect() closed: onclose
CloseEvent ==
    /\ net.closing > 0
    /\ LET G == handleConnectionClose([Frame EXCEPT !.net.closing = @ - 1])
       IN /\ Bounded(G)
          /\ Commit(G)
          /\ ev' = Event("close", "local", Frame, G, <<>>)
          /\ hist' = [hist EXCEPT !.disconnectCalled = FALSE]

\* an open connection reports an error: onerror
RemoteError ==
    /\ live.session = "open" \/ net.orphans > 0
    /\ LET G == onerror(Frame)
       IN /\ Commit(G)
          /\ ev' = Quiet
    /\ UNCHANGED hist

Chars == {"a", " "}
\* part.text of one part: absent or empty, or one character
Parts == {<<>>} \cup {<<c>> : c \in Chars}
Messages ==
    [ serverContent : {TRUE},
      parts : {<<>>} \cup {<<p>> : p \in Parts} \cup {<<p, q>> : p \in Parts, q \in Parts},
      turnComplete : BOOLEAN ]
    \cup {[ serverContent |-> FALSE, parts |-> <<>>, turnComplete |-> FALSE ]}

\* an open connection delivers a message: onmessage
Message(m) ==
    /\ live.session = "open" \/ net.orphans > 0
    /\ LET G == onmessage(Frame, m)
           turn == IF m.serverContent
                   THEN appendParts(hist.turnFragments, m.parts)
                   ELSE hist.turnFragments
       IN /\ Len(G.s.currentTurnText) <= MaxText
          /\ Len(turn) <= MaxText
          /\ Commit(G)
          /\ ev' = Event("message",
                         IF m.serverContent /\ m.turnComplete
                         THEN "turnComplete" ELSE "partial",
                         Frame, G, turn)
          /\ hist' = [hist EXCEPT !.turnFragments =
                         IF m.serverContent /\ m.turnComplete THEN <<>> ELSE turn]

\* a caller calls disconnect()
Disconnect ==
    LET G == disconnect(Frame) IN
    /\ Bounded(G)
    /\ Commit(G)
    /\ ev' = Quiet
    /\ hist' = [hist EXCEPT !.disconnectCalled = TRUE]

\* a caller calls manualReconnect()
ManualReconnect ==
    LET G == manualReconnect(Frame)
    IN /\ Bounded(G)
       /\ Commit(G)
       /\ ev' = Quiet
       /\ hist' = [hist EXCEPT !.failedAttempts = 0, !.exhausted = FALSE]

\* the connection and reconnection machine of the streaming session
NextStream ==
    \/ Connect /\ UNCHANGED <<batch_all, page_all, ext_all>>
    \/ \E c \in Callers : ConnectResolve(c) /\ UNCHANGED <<batch_all, page_all, ext_all>>
    \/ \E c \in Callers : ConnectReject(c) /\ UNCHANGED <<batch_all, page_all, ext_all>>
    \/ \E i \in 1..MaxTimeouts : ReconnectTimeout(i) /\ UNCHANGED <<batch_all, page_all, ext_all>>
    \/ \E w \in {"session", "orphan"} : RemoteClose(w) /\ UNCHANGED <<batch_all, page_all, ext_all>>
    \/ CloseEvent /\ UNCHANGED <<batch_all, page_all, ext_all>>
    \/ RemoteError /\ UNCHANGED <<batch_all, page_all, ext_all>>
    \/ Disconnect /\ UNCHANGED <<batch_all, page_all, ext_all>>
    \/ ManualReconnect /\ UNCHANGED <<batch_all, page_all, ext_all>>

SpecStream == InitStream /\ [][NextStream]_vars

\* the turn buffer of the streaming session: messages on the connections
\* the object opens, closes and reopens
NextTurn ==
    \/ Connect /\ UNCHANGED <<batch_all, page_all, ext_all>>
    \/ \E c \in {"user", "timer"} : ConnectResolve(c) /\ UNCHANGED <<batch_all, page_all, ext_all>>
    \/ \E i \in 1..MaxTimeouts : ReconnectTimeout(i) /\ UNCHANGED <<batch_all, page_all, ext_all>>
    \/ \E w \in {"session", "orphan"} : RemoteClose(w) /\ UNCHANGED <<batch_all, page_all, ext_all>>
    \/ CloseEvent /\ UNCHANGED <<batch_all, page_all, ext_all>>
    \/ \E m \in Messages : Message(m) /\ UNCHANGED <<batch_all, page_all, ext_all>>
    \/ Disconnect /\ UNCHANGED <<batch_all, page_all, ext_all>>

SpecTurn == InitStream /\ [][NextTurn]_vars

\* the coordinator calls startAudioProcessing(mediaStream) on a session
\* whose capture it has not started
StartAudioProcessing ==
    LET G == startAudioProcessing(Frame) IN
    /\ ~live.captureTimer
    /\ Bounded(G)
    /\ Commit(G)
    /\ ev' = Quiet
    /\ UNCHANGED hist

\* the callback of a capture interval runs: with an analyser it sends one
\* chunk with this.session.sendRealtimeInput
CaptureTick ==
    /\ intervals > 0
    /\ ev' = IF live.analyserNode
             THEN [NoEvent EXCEPT !.kind = "chunk", !.arg = live.session]
             ELSE Quiet
    /\ UNCHANGED <<live, timeouts, intervals, net, hist>>

\* the streaming session with its audio capture: connections that open,
\* close and reopen while the coordinator starts the capture and disconnects
NextAudio ==
    \/ Connect /\ UNCHANGED <<batch_all, page_all, ext_all>>
    \/ \E c \in {"user", "timer"} : ConnectResolve(c) /\ UNCHANGED <<batch_all, page_all, ext_all>>
    \/ \E i \in 1..MaxTimeouts : ReconnectTimeout(i) /\ UNCHANGED <<batch_all, page_all, ext_all>>
    \/ \E w \in {"session", "orphan"} : RemoteClose(w) /\ UNCHANGED <<batch_all, page_all, ext_all>>
    \/ CloseEvent /\ UNCHANGED <<batch_all, page_all, ext_all>>
    \/ Disconnect /\ UNCHANGED <<batch_all, page_all, ext_all>>
    \/ StartAudioProcessing /\ UNCHANGED <<batch_all, page_all, ext_all>>
    \/ CaptureTick /\ UNCHANGED <<batch_all, page_all, ext_all>>

SpecAudio == InitStream /\ [][NextAudio]_vars

\* the session reconnected by hand: manualReconnect() and the answers to
\* its connect attempt, with what each returned
NextManual ==
    \/ Connect /\ UNCHANGED <<batch_all, page_all, ext_all>>
    \/ ConnectResolve("user") /\ UNCHANGED <<batch_all, page_all, ext_all>>
    \/ /\ ConnectResolve("manual")
       /\ UNCHANGED <<calc, stopped, key_all>>
       /\ ret' = [of |-> "resolve",
                  value |-> manualReconnectResumeReturn(
                                assignSession(onopen([Frame EXCEPT !.net.pend["manual"] = @ - 1])))]
       /\ UNCHANGED <<batch_all, page_all>>
    \/ ConnectReject("user") /\ UNCHANGED <<batch_all, page_all, ext_all>>
    \/ /\ ConnectReject("manual")
       /\ UNCHANGED <<calc, stopped, key_all>>
       /\ ret' = [of |-> "reject", value |-> "false"]   \* catch: return false
       /\ UNCHANGED <<batch_all, page_all>>
    \/ \E i \in 1..MaxTimeouts : ReconnectTimeout(i) /\ UNCHANGED <<batch_all, page_all, ext_all>>
    \/ \E w \in {"session", "orphan"} : RemoteClose(w) /\ UNCHANGED <<batch_all, page_all, ext_all>>
    \/ StartAudioProcessing /\ UNCHANGED <<batch_all, page_all, ext_all>>
    \/ /\ ManualReconnect
       /\ UNCHANGED <<calc, stopped, key_all>>
       /\ ret' = [of |-> "call", value |-> manualReconnectReturn(Frame)]
       /\ UNCHANGED <<batch_all, page_all>>

SpecManual == InitStream /\ [][NextManual]_vars

\* the session connected once by its owner and left to its reconnection
\* machine: close events, attempts that fail or succeed, manualReconnect(),
\* disconnect()
NextReconnect ==
    \/ ~live.updateSubtitleCallback /\ Connect /\ UNCHANGED <<batch_all, page_all, ext_all>>
    \/ \E c \in Callers : ConnectResolve(c) /\ UNCHANGED <<batch_all, page_all, ext_all>>
    \/ \E c \in Callers : ConnectReject(c) /\ UNCHANGED <<batch_all, page_all, ext_all>>
    \/ \E i \in 1..MaxTimeouts : ReconnectTimeout(i) /\ UNCHANGED <<batch_all, page_all, ext_all>>
    \/ \E w \in {"session", "orphan"} : RemoteClose(w) /\ UNCHANGED <<batch_all, page_all, ext_all>>
    \/ CloseEvent /\ UNCHANGED <<batch_all, page_all, ext_all>>
    \/ Disconnect /\ UNCHANGED <<batch_all, page_all, ext_all>>
    \/ ManualReconnect /\ UNCHANGED <<batch_all, page_all, ext_all>>

SpecReconnect == InitStream /\ [][NextReconnect]_vars

\* the steps the session does not wait for its owner to take: a scheduled
\* reconnection timeout fires, a connect attempt resolves or rejects, the
\* close event of a connection closed by disconnect() is delivered
TimeoutFires == \E i \in 1..MaxTimeouts : ReconnectTimeout(i) /\ UNCHANGED <<batch_all, page_all, ext_all>>
AttemptEnds(c) == (ConnectResolve(c) \/ ConnectReject(c)) /\ UNCHANGED <<batch_all, page_all, ext_all>>
CloseDelivered == CloseEvent /\ UNCHANGED <<batch_all, page_all, ext_all>>

\* the session connected once by its owner and capturing audio, closed by
\* the remote side or by disconnect(), reconnecting by itself, and
\* reconnected by hand once it has given up
NextRetry ==
    \/ ~live.updateSubtitleCallback /\ Connect /\ UNCHANGED <<batch_all, page_all, ext_all>>
    \/ \E c \in Callers : AttemptEnds(c)
    \/ TimeoutFires
    \/ \E w \in {"session", "orphan"} : RemoteClose(w) /\ UNCHANGED <<batch_all, page_all, ext_all>>
    \/ CloseDelivered
    \/ StartAudioProcessing /\ UNCHANGED <<batch_all, page_all, ext_all>>
    \/ Disconnect /\ UNCHANGED <<batch_all, page_all, ext_all>>
    \/ live.connectionState = "failed" /\ ManualReconnect /\ UNCHANGED <<batch_all, page_all, ext_all>>

\* timers fire, connect attempts end, close events are delivered
SpecRetry ==
    /\ InitStream
    /\ [][NextRetry]_vars
    /\ WF_vars(TimeoutFires)
    /\ \A c \in Callers : WF_vars(AttemptEnds(c))
    /\ WF_vars(CloseDelivered)

(***************************************************************************)
(* Actions of a batch session driven through its public methods            *)
(***************************************************************************)
InitBatch ==
    /\ StreamIdle
    /\ ExtIdle
    /\ PageIdle
    /\ \E class \in Classes : batch = BatchNew(class)
    /\ bIntervals = 0
    /\ inflight = <<>>
    /\ bh = BhInit

BBounded(B) == B.iv <= MaxIntervals

BatchConnect(ok) ==
    LET B == batchConnect(BFrame, ok) IN
    /\ BCommit(B)
    /\ bh' = [bh EXCEPT !.last = "connect", !.cb = <<>>]

BatchStartAudioProcessing ==
    LET B == batchStartAudioProcessing(BFrame) IN
    /\ BBounded(B)
    /\ BCommit(B)
    /\ bh' = IF batch.genAI
             THEN [bh EXCEPT !.runStart = bh.next, !.ticks = 0, !.sent = <<>>,
                             !.fresh = B.o.audioBufferQueue = <<>> /\ ~B.o.isProcessing
                                          /\ inflight = <<>> /\ bIntervals = 0,
                             !.last = "start", !.cb = <<>>]
             ELSE [bh EXCEPT !.last = "start", !.cb = <<>>]

BatchStopAudioProcessing ==
    LET B == batchStopAudioProcessing(BFrame) IN
    /\ BCommit(B)
    /\ bh' = [bh EXCEPT !.fresh = FALSE, !.sent = @ \o B.sub, !.last = "stop", !.cb = <<>>]

\* disconnect() ends: the requests that were in flight when it was called
\* are those of a stopped session
DisconnectCommit(B) ==
    /\ Len(B.fl) <= MaxRequests
    /\ batch' = B.o
    /\ bIntervals' = B.iv
    /\ inflight' = [i \in 1..Len(B.fl) |->
                        IF i <= Len(inflight) THEN [B.fl[i] EXCEPT !.stopped = TRUE]
                        ELSE B.fl[i]]

BatchDisconnect ==
    LET B == batchDisconnect(BFrame) IN
    /\ DisconnectCommit(B)
    /\ bh' = [bh EXCEPT !.fresh = FALSE, !.sent = @ \o B.sub, !.last = "disconnect", !.cb = <<>>]

BatchTick ==
    /\ bIntervals > 0
    /\ bh.next <= MaxChunks
    /\ LET B == batchTick(BFrame, bh.next) IN
       /\ BCommit(B)
       /\ bh' = IF batch.analyserNode
                THEN [bh EXCEPT !.next = @ + 1, !.ticks = @ + 1, !.sent = @ \o B.sub,
                                !.last = "tick", !.cb = <<>>]
                ELSE [bh EXCEPT !.last = "idle", !.cb = <<>>]

BatchResponse(i, outcome) ==
    /\ i \in 1..Len(inflight)
    /\ LET B == batchResponse(BFrame, i, outcome) IN
       /\ BCommit(B)
       /\ bh' = [bh EXCEPT !.last = IF outcome = "error" THEN "failed" ELSE "response",
                           !.cb = B.cb]

NextBatch ==
    \/ \E ok \in BOOLEAN : BatchConnect(ok) /\ UNCHANGED <<stream_all, page_all, ext_all>>
    \/ BatchStartAudioProcessing /\ UNCHANGED <<stream_all, page_all, ext_all>>
    \/ BatchStopAudioProcessing /\ UNCHANGED <<stream_all, page_all, ext_all>>
    \/ BatchDisconnect /\ UNCHANGED <<stream_all, page_all, ext_all>>
    \/ BatchTick /\ UNCHANGED <<stream_all, page_all, ext_all>>
    \/ \E i \in 1..MaxRequests, outcome \in Outcomes : BatchResponse(i, outcome) /\ UNCHANGED <<stream_all, page_all, ext_all>>

SpecBatch == InitBatch /\ [][NextBatch]_vars

(***************************************************************************)
(* Actions of the content script and the background                        *)
(***************************************************************************)
InFlight == Len(chan.toBackground) + Len(bg.storageGet) + Len(chan.toContent)

\* the registered videos marked as capturing
Capturing == { v \in 1..page.registered : page.video[v].isCapturing }

\* the task ends: the page it leaves and the requests it has sent
PCommit(P) ==
    /\ InFlight + Len(P.out) <= MaxMessages
    /\ \A v \in Videos : P.pg.video[v].liveTimers <= MaxIntervals
    /\ page' = P.pg
    /\ chan' = [chan EXCEPT !.toBackground = @ \o P.out]

\* detectExistingVideos / observeNewVideos find one more video element
RegisterVideo ==
    /\ page.registered < MaxVideos
    /\ page' = registerVideoElement(page, page.registered + 1)
    /\ ch' = ChInit
    /\ UNCHANGED <<chan, bg, batch_all>>

\* the TOGGLE_TRANSLATION listener
Toggle(enabled) ==
    /\ enabled /= page.isEnabled
    /\ LET P0 == [PFrame EXCEPT !.pg.isEnabled = enabled]
       IN PCommit(IF enabled THEN P0 ELSE stopAll(P0, 1))
    /\ ch' = ChInit
    /\ UNCHANGED <<bg, batch_all>>

\* the play listener of video v
Play(v, ok) ==
    /\ v <= page.registered
    /\ PCommit(startAudioCapture(PFrame, v, ok))
    /\ ch' = IF page.isEnabled /\ ~ok /\ Capturing = {}
             THEN [ChInit EXCEPT !.last = "acquireFailed", !.v = v]
             ELSE ChInit
    /\ UNCHANGED <<bg, batch_all>>

\* the pause and ended listeners of video v
PauseOrEnded(v) ==
    /\ v <= page.registered
    /\ page.video[v].isCapturing
    /\ PCommit(stopAudioCapture(PFrame, PauseListener, v))
    /\ ch' = ChInit
    /\ UNCHANGED <<bg, batch_all>>

\* the answer to STOP_GEMINI_SESSION arrives: stopAudioCapture finishes and
\* the startAudioCapture awaiting it goes on with its loop
StopResponse(ok) ==
    /\ chan.toContent /= <<>>
    /\ LET m == Head(chan.toContent)
           P0 == [pg |-> page, out |-> <<>>]
           P1 == stopAudioCaptureResume(P0, m.other)
           P2 == IF m.v \notin Videos THEN P1 ELSE stopOthers(P1, m.v, m.other + 1, ok)
       IN /\ m.type = "STOP_GEMINI_SESSION"
          /\ InFlight - 1 + Len(P2.out) <= MaxMessages
          /\ page' = P2.pg
          /\ chan' = [toBackground |-> chan.toBackground \o P2.out,
                      toContent |-> Tail(chan.toContent)]
          /\ ch' = IF /\ m.v \in Videos /\ ~ok
                      /\ P2.out = <<>> /\ ~P1.pg.video[m.v].isCapturing
                   THEN [ChInit EXCEPT !.last = "acquireFailed", !.v = m.v]
                   ELSE ChInit
    /\ UNCHANGED <<bg, batch_all>>

\* the answer to START_GEMINI_SESSION arrives
StartResponse ==
    /\ chan.toContent /= <<>>
    /\ LET m == Head(chan.toContent)
           P == startAudioCaptureResume(PFrame, m.v, m.success)
       IN /\ m.type = "START_GEMINI_SESSION"
          /\ P.pg.video[m.v].liveTimers <= MaxIntervals
          /\ page' = P.pg
          /\ chan' = [chan EXCEPT !.toContent = Tail(@)]
    /\ ch' = ChInit
    /\ UNCHANGED <<bg, batch_all>>

\* the TRANSCRIPTION_RESULT listener
TranscriptionResult ==
    /\ chan.toContent /= <<>>
    /\ LET m == Head(chan.toContent)
       IN /\ m.type = "TRANSCRIPTION_RESULT"
          /\ chan' = [chan EXCEPT !.toContent = Tail(@)]
          /\ ch' = [ChInit EXCEPT !.last = "transcription",
                                   !.updated = sinksUpdated(page), !.stale = m.stale]
    /\ UNCHANGED <<page, bg, batch_all>>

\* handleSetApiKey (sent by the popup)
SetApiKey ==
    /\ ~bg.apiKey
    /\ bg' = [bg EXCEPT !.apiKey = TRUE]
    /\ ch' = ChInit
    /\ UNCHANGED <<page, chan, batch_all>>

\* handleStopSession
HandleStopSession ==
    /\ chan.toBackground /= <<>>
    /\ LET r == Head(chan.toBackground)
       IN /\ r.type = "STOP_GEMINI_SESSION"
          /\ chan' = [toBackground |-> Tail(chan.toBackground),
                      toContent |-> Append(chan.toContent, Response(r, TRUE))]
    /\ IF bg.activeSessions
       THEN DisconnectCommit(batchDisconnect(BFrame))
       ELSE UNCHANGED <<batch, bIntervals, inflight>>
    /\ UNCHANGED bh
    /\ bg' = [bg EXCEPT !.activeSessions = FALSE]
    /\ ch' = ChInit
    /\ UNCHANGED page

\* handleStartSession up to the await of storage.local.get
HandleStartSession ==
    /\ chan.toBackground /= <<>>
    /\ LET r == Head(chan.toBackground)
       IN /\ r.type = "START_GEMINI_SESSION"
          /\ IF bg.activeSessions
             THEN /\ chan' = [toBackground |-> Tail(chan.toBackground),
                              toContent |-> Append(chan.toContent, Response(r, TRUE))]
                  /\ bg' = bg
             ELSE /\ chan' = [chan EXCEPT !.toBackground = Tail(@)]
                  /\ bg' = [bg EXCEPT !.storageGet = Append(@, r)]
    /\ ch' = ChInit
    /\ UNCHANGED <<page, batch_all>>

\* handleStartSession after the await: a new session object is connected
\* and stored.  The object it replaces, if any, is out of reach of every
\* caller; its requests in flight still answer to its callback.
HandleStartSessionResume ==
    /\ bg.storageGet /= <<>>
    /\ LET r == Head(bg.storageGet)
           B == batchConnect([BFrame EXCEPT !.o = BatchNew("understanding"), !.iv = 0], TRUE)
       IN IF bg.apiKey
          THEN /\ batch' = B.o
               /\ bIntervals' = B.iv
               /\ inflight' = [i \in 1..Len(inflight) |-> [inflight[i] EXCEPT !.own = FALSE]]
               /\ UNCHANGED bh
               /\ bg' = [bg EXCEPT !.storageGet = Tail(@), !.activeSessions = TRUE]
               /\ chan' = [chan EXCEPT !.toContent = Append(@, Response(r, TRUE))]
          ELSE /\ bg' = [bg EXCEPT !.storageGet = Tail(@)]
               /\ chan' = [chan EXCEPT !.toContent = Append(@, Response(r, FALSE))]
               /\ UNCHANGED batch_all
    /\ ch' = ChInit
    /\ UNCHANGED page

InitCapture == StreamIdle /\ BatchIdle /\ PageIdle /\ ExtIdle

NextCapture ==
    \/ RegisterVideo /\ UNCHANGED <<stream_all, played, ext_all>>
    \/ \E enabled \in BOOLEAN : Toggle(enabled) /\ UNCHANGED <<stream_all, played, ext_all>>
    \/ \E v \in Videos, ok \in BOOLEAN : Play(v, ok) /\ UNCHANGED <<stream_all, played, ext_all>>
    \/ \E v \in Videos : PauseOrEnded(v) /\ UNCHANGED <<stream_all, played, ext_all>>
    \/ \E ok \in BOOLEAN : StopResponse(ok) /\ UNCHANGED <<stream_all, played, ext_all>>
    \/ StartResponse /\ UNCHANGED <<stream_all, played, ext_all>>
    \/ SetApiKey /\ UNCHANGED <<stream_all, played, ext_all>>
    \/ HandleStopSession /\ UNCHANGED <<stream_all, played, ext_all>>
    \/ HandleStartSession /\ UNCHANGED <<stream_all, played, ext_all>>
    \/ HandleStartSessionResume /\ UNCHANGED <<stream_all, played, ext_all>>

Spec == InitCapture /\ [][NextCapture]_vars

(***************************************************************************)
(* The session of the tab captures audio: a caller holding the session     *)
(* stored in activeSessions uses its public startAudioProcessing.          *)
(***************************************************************************)
SessionStartAudioProcessing ==
    /\ bg.activeSessions
    /\ ~batch.captureTimer
    /\ BCommit(batchStartAudioProcessing(BFrame))
    /\ ch' = ChInit
    /\ UNCHANGED <<page, chan, bg, bh>>

\* the interval callback; the chunks of the page's sessions are not told apart
SessionTick ==
    /\ batch.analyserNode
    /\ Len(batch.audioBufferQueue) < StaleChunks
    /\ BCommit(batchTick(BFrame, 0))
    /\ ch' = ChInit
    /\ UNCHANGED <<page, chan, bg, bh>>

\* the response of the i-th request in flight arrives; the callback given
\* to connect() by handleStartSession sends TRANSCRIPTION_RESULT to the tab
SessionResponse(i, outcome) ==
    /\ i \in 1..Len(inflight)
    /\ LET r == inflight[i]
           B == batchResponse(BFrame, i, outcome)
           sends == IF r.own THEN B.cb /= <<>> ELSE outcome = "text"
       IN /\ InFlight + (IF sends THEN 1 ELSE 0) <= MaxMessages
          /\ IF r.own
             THEN BCommit(B)
             ELSE /\ inflight' = RemoveAt(inflight, i)
                  /\ UNCHANGED <<batch, bIntervals>>
          /\ chan' = IF sends
                     THEN [chan EXCEPT !.toContent = Append(@,
                              [type |-> "TRANSCRIPTION_RESULT", v |-> 0, other |-> 0,
                               success |-> TRUE, stale |-> r.stopped])]
                     ELSE chan
    /\ ch' = ChInit
    /\ UNCHANGED <<page, bg, bh>>

\* translation is enabled, an API key is stored and the videos of the page
\* are registered
InitStale ==
    /\ StreamIdle
    /\ ExtIdle
    /\ BatchIdle
    /\ page = detectExistingVideos([PageInit EXCEPT !.isEnabled = TRUE], StaleVideos)
    /\ chan = ChanInit
    /\ bg = [BgInit EXCEPT !.apiKey = TRUE]
    /\ ch = ChInit
    /\ played = 0

NextStale ==
    \/ \E v \in Videos, ok \in BOOLEAN : Play(v, ok) /\ UNCHANGED <<stream_all, played, ext_all>>
    \/ \E v \in Videos : PauseOrEnded(v) /\ UNCHANGED <<stream_all, played, ext_all>>
    \/ \E ok \in BOOLEAN : StopResponse(ok) /\ UNCHANGED <<stream_all, played, ext_all>>
    \/ StartResponse /\ UNCHANGED <<stream_all, played, ext_all>>
    \/ HandleStopSession /\ UNCHANGED <<stream_all, played, ext_all>>
    \/ HandleStartSession /\ UNCHANGED <<stream_all, played, ext_all>>
    \/ HandleStartSessionResume /\ UNCHANGED <<stream_all, played, ext_all>>
    \/ SessionStartAudioProcessing /\ UNCHANGED <<stream_all, played, ext_all>>
    \/ SessionTick /\ UNCHANGED <<stream_all, played, ext_all>>
    \/ \E i \in 1..MaxRequests, outcome \in Outcomes : SessionResponse(i, outcome) /\ UNCHANGED <<stream_all, played, ext_all>>
    \/ TranscriptionResult /\ UNCHANGED <<stream_all, played, ext_all>>

SpecStale == InitStale /\ [][NextStale]_vars

\* translation is enabled, an API key is stored and the videos of the page
\* are registered
InitPlay ==
    /\ StreamIdle
    /\ ExtIdle
    /\ BatchIdle
    /\ page = detectExistingVideos([PageInit EXCEPT !.isEnabled = TRUE], PlayVideos)
    /\ chan = ChanInit
    /\ bg = [BgInit EXCEPT !.apiKey = TRUE]
    /\ ch = ChInit
    /\ played = 0

\* the coordinator and the background on that page: play, pause and ended
\* events and the requests they start.  played follows the play events: a
\* play whose stream is acquired sets it, a pause or ended event and a
\* failed acquisition clear it.
NextPlay ==
    \/ \E v \in Videos, ok \in BOOLEAN :
          Play(v, ok) /\ played' = (IF ok THEN v ELSE 0) /\ UNCHANGED <<stream_all, ext_all>>
    \/ \E v \in Videos : PauseOrEnded(v) /\ played' = 0 /\ UNCHANGED <<stream_all, ext_all>>
    \/ \E ok \in BOOLEAN :
          /\ StopResponse(ok)
          /\ played' = IF Head(chan.toContent).v \in Videos /\ ~ok THEN 0 ELSE played
          /\ UNCHANGED <<stream_all, ext_all>>
    \/ StartResponse /\ UNCHANGED <<stream_all, played, ext_all>>
    \/ HandleStopSession /\ UNCHANGED <<stream_all, played, ext_all>>
    \/ HandleStartSession /\ UNCHANGED <<stream_all, played, ext_all>>
    \/ HandleStartSessionResume /\ UNCHANGED <<stream_all, played, ext_all>>

SpecPlay == InitPlay /\ [][NextPlay]_vars

\* the initial scan or the mutation observer calls registerVideoElement for
\* element v: a registered element, or the next new one
Register(v) ==
    /\ v <= page.registered + 1
    /\ page' = registerVideoElement(page, v)
    /\ ch' = IF v <= page.registered
             THEN [ChInit EXCEPT !.last = "registerAgain", !.v = v]
             ELSE ChInit
    /\ UNCHANGED <<chan, bg, batch_all>>

\* translation is enabled and an API key is stored; no video is registered
InitRegister ==
    /\ StreamIdle
    /\ ExtIdle
    /\ BatchIdle
    /\ page = [PageInit EXCEPT !.isEnabled = TRUE]
    /\ chan = ChanInit
    /\ bg = [BgInit EXCEPT !.apiKey = TRUE]
    /\ ch = ChInit
    /\ played = 0

\* the videos of the page are found, and found again, while they play
NextRegister ==
    \/ \E v \in 1..PlayVideos : Register(v) /\ UNCHANGED <<stream_all, played, ext_all>>
    \/ \E v \in Videos, ok \in BOOLEAN : Play(v, ok) /\ UNCHANGED <<stream_all, played, ext_all>>
    \/ \E v \in Videos : PauseOrEnded(v) /\ UNCHANGED <<stream_all, played, ext_all>>
    \/ \E ok \in BOOLEAN : StopResponse(ok) /\ UNCHANGED <<stream_all, played, ext_all>>
    \/ StartResponse /\ UNCHANGED <<stream_all, played, ext_all>>
    \/ HandleStopSession /\ UNCHANGED <<stream_all, played, ext_all>>
    \/ HandleStartSession /\ UNCHANGED <<stream_all, played, ext_all>>
    \/ HandleStartSessionResume /\ UNCHANGED <<stream_all, played, ext_all>>

SpecRegister == InitRegister /\ [][NextRegister]_vars

(***************************************************************************)
(* The audio helpers applied to their arguments                            *)
(***************************************************************************)
Samples == -(Scale + 2)..(Scale + 2)

\* Float32Arrays of at most n samples drawn from S
Arrays(S, n) == UNION {[1..k -> S] : k \in 0..n}

\* convertFloat32ToInt16PCM is about to be called on a Float32Array
InitPcm ==
    /\ StreamIdle
    /\ BatchIdle
    /\ PageIdle
    /\ ret = RetInit
    /\ stopped = {}
    /\ KeyIdle
    /\ \E a \in Arrays(Samples, MaxSamples) :
          calc = [CalcIdle EXCEPT !.op = "pcm", !.input = a]

Convert ==
    /\ calc.op = "pcm"
    /\ ~calc.done
    /\ calc' = [calc EXCEPT !.output = convertFloat32ToInt16PCM(calc.input), !.done = TRUE]

NextPcm == Convert /\ UNCHANGED <<stream_all, batch_all, page_all, ret, stopped, key_all>>

SpecPcm == InitPcm /\ [][NextPcm]_vars

\* sample values that tell the buffers of a queue apart
Tones == {-Scale, 0, Scale}

\* the queues processAudioQueue hands to combineAudioBuffers: it returns
\* before the call when the queue is empty
Queues ==
    UNION {[1..k -> Arrays(Tones, MaxSamples)] : k \in 1..MaxBuffers}

InitCombine ==
    /\ StreamIdle
    /\ BatchIdle
    /\ PageIdle
    /\ ret = RetInit
    /\ stopped = {}
    /\ KeyIdle
    /\ \E q \in Queues :
          calc = [CalcIdle EXCEPT !.op = "combine", !.input = q]

\* processAudioQueue of GeminiAudioUnderstandingSession combines its queue
Combine ==
    /\ calc.op = "combine"
    /\ ~calc.done
    /\ calc' = [calc EXCEPT !.output = combineAudioBuffers(calc.input), !.done = TRUE]

\* processAudioQueue of the earlier GeminiLiveSession combines its queue
LiveCombine ==
    /\ calc.op = "combine"
    /\ ~calc.done
    /\ LET r == liveCombineAudioBuffers(calc.input)
       IN calc' = [calc EXCEPT !.op = "liveCombine", !.output = r.value,
                               !.threw = r.threw, !.done = TRUE]

NextCombine ==
    \/ Combine /\ UNCHANGED <<stream_all, batch_all, page_all, ret, stopped, key_all>>
    \/ LiveCombine /\ UNCHANGED <<stream_all, batch_all, page_all, ret, stopped, key_all>>

SpecCombine == InitCombine /\ [][NextCombine]_vars

(***************************************************************************)
(* Actions of the settings popup                                           *)
(***************************************************************************)
Strings == Arrays(KeyChars, MaxKeyLen)

KCommit(K) ==
    /\ popup' = K.p
    /\ storage' = K.st
    /\ out' = [log |-> K.log, acks |-> <<>>, sent |-> <<>>]

CCommit(C) ==
    /\ \A t \in Tabs :
          C.c.unrecorded[t] + (IF C.c.activeSessions[t] = "none" THEN 0 ELSE 1) <= MaxObjects
    /\ Len(C.c.starting) <= MaxStarting
    /\ coord' = C.c
    /\ storage' = C.st
    /\ out' = [log |-> C.log, acks |-> C.acks, sent |-> C.sent]

\* the popup is opened: App mounts and its effect loads the settings
Open(ok) ==
    /\ popup.pending = "none"
    /\ KCommit(loadSettings([KFrame EXCEPT !.p = PopupInit], ok))

\* onChange of the input, which is disabled while loading
Type(s) ==
    /\ ~popup.loading
    /\ KCommit([KFrame EXCEPT !.p.apiKey = s])

\* onClick of Save.  handleSave runs for any input: its own check keeps a
\* blank key out, the button being disabled for blank input as well
Save ==
    /\ ~popup.loading
    /\ KCommit(handleSave(KFrame))

\* storage.local.set of handleSave is answered
SaveDone(ok) ==
    /\ popup.pending = "set"
    /\ KCommit(handleSaveResume(KFrame, ok))

\* onClick of Clear, which is disabled while loading and with no saved key
Clear ==
    /\ ~popup.loading
    /\ popup.savedKey /= <<>>
    /\ KCommit(handleClear(KFrame))

\* storage.local.remove of handleClear is answered
ClearDone(ok) ==
    /\ popup.pending = "remove"
    /\ KCommit(handleClearResume(KFrame, ok))

InitPopup == StreamIdle /\ BatchIdle /\ PageIdle /\ ExtIdle

NextPopup ==
    \/ \E ok \in BOOLEAN : Open(ok) /\ UNCHANGED <<rest_all, coord>>
    \/ \E s \in Strings : Type(s) /\ UNCHANGED <<rest_all, coord>>
    \/ Save /\ UNCHANGED <<rest_all, coord>>
    \/ \E ok \in BOOLEAN : SaveDone(ok) /\ UNCHANGED <<rest_all, coord>>
    \/ Clear /\ UNCHANGED <<rest_all, coord>>
    \/ \E ok \in BOOLEAN : ClearDone(ok) /\ UNCHANGED <<rest_all, coord>>

SpecPopup == InitPopup /\ [][NextPopup]_vars

(***************************************************************************)
(* Actions of the background coordinator: one per message type, one per    *)
(* resumed handler, one for the removal of a tab                           *)
(***************************************************************************)
OnGetGeminiConfig(ok) ==
    CCommit(handleGetGeminiConfig(received(CFrame, "GET_GEMINI_CONFIG"), ok))

OnSetApiKey(apiKey, ok) ==
    CCommit(handleSetApiKey(received(CFrame, "SET_API_KEY"), apiKey, ok))

OnValidateApiKey(apiKey) ==
    CCommit(handleValidateApiKey(received(CFrame, "VALIDATE_API_KEY"), apiKey))

OnStartSession(tabId) ==
    CCommit(handleStartSession(received(CFrame, "START_GEMINI_SESSION"), tabId))

OnStartSessionResume(i, ok, connected) ==
    /\ i \in 1..Len(coord.starting)
    /\ CCommit(handleStartSessionResume(CFrame, i, ok, connected))

OnStopSession(tabId) ==
    CCommit(handleStopSession(received(CFrame, "STOP_GEMINI_SESSION"), tabId))

OnAudioChunk(tabId) ==
    CCommit(handleAudioChunk(received(CFrame, "SEND_AUDIO_CHUNK"), tabId))

OnUnknown ==
    CCommit(unknownMessage(received(CFrame, "PING"), "PING"))

OnTabRemoved(tabId) ==
    CCommit(onRemoved(CFrame, tabId))

Senders == Tabs \cup {NoTab}

InitCoordinator == StreamIdle /\ BatchIdle /\ PageIdle /\ ExtIdle

NextCoordinator ==
    \/ \E ok \in BOOLEAN : OnGetGeminiConfig(ok) /\ UNCHANGED <<rest_all, popup>>
    \/ \E k \in Strings, ok \in BOOLEAN : OnSetApiKey(k, ok) /\ UNCHANGED <<rest_all, popup>>
    \/ \E k \in Strings : OnValidateApiKey(k) /\ UNCHANGED <<rest_all, popup>>
    \/ \E t \in Senders : OnStartSession(t) /\ UNCHANGED <<rest_all, popup>>
    \/ \E i \in 1..MaxStarting, ok, connected \in BOOLEAN :
          OnStartSessionResume(i, ok, connected) /\ UNCHANGED <<rest_all, popup>>
    \/ \E t \in Senders : OnStopSession(t) /\ UNCHANGED <<rest_all, popup>>
    \/ \E t \in Senders : OnAudioChunk(t) /\ UNCHANGED <<rest_all, popup>>
    \/ OnUnknown /\ UNCHANGED <<rest_all, popup>>
    \/ \E t \in Tabs : OnTabRemoved(t) /\ UNCHANGED <<rest_all, popup>>

SpecCoordinator == InitCoordinator /\ [][NextCoordinator]_vars

\* the API key on its way: saved and cleared in the popup, written and read
\* by the coordinator.  The requests are those of the content script of
\* one tab, which awaits the answer to a START before its next request.
NextKey ==
    \/ \E ok \in BOOLEAN : Open(ok) /\ UNCHANGED <<rest_all, coord>>
    \/ \E s \in Strings : Type(s) /\ UNCHANGED <<rest_all, coord>>
    \/ Save /\ UNCHANGED <<rest_all, coord>>
    \/ \E ok \in BOOLEAN : SaveDone(ok) /\ UNCHANGED <<rest_all, coord>>
    \/ Clear /\ UNCHANGED <<rest_all, coord>>
    \/ \E ok \in BOOLEAN : ClearDone(ok) /\ UNCHANGED <<rest_all, coord>>
    \/ \E k \in {<<>>, <<"a">>}, ok \in BOOLEAN :
          OnSetApiKey(k, ok) /\ UNCHANGED <<rest_all, popup>>
    \/ coord.starting = <<>> /\ OnStartSession(MaxTabs) /\ UNCHANGED <<rest_all, popup>>
    \/ \E ok, connected \in BOOLEAN :
          OnStartSessionResume(1, ok, connected) /\ UNCHANGED <<rest_all, popup>>
    \/ coord.starting = <<>> /\ OnStopSession(MaxTabs) /\ UNCHANGED <<rest_all, popup>>

SpecKey == InitCoordinator /\ [][NextKey]_vars

\* the coordinator, with the tabs whose session has been stopped and not
\* started again
NextStop ==
    \/ \E ok \in BOOLEAN : OnGetGeminiConfig(ok) /\ UNCHANGED <<rest_all, popup>>
    \/ \E k \in {<<>>, <<"a">>}, ok \in BOOLEAN :
          OnSetApiKey(k, ok) /\ UNCHANGED <<rest_all, popup>>
    \/ \E t \in Senders :
          /\ OnStartSession(t)
          /\ stopped' = stopped \ {t}
          /\ UNCHANGED <<stream_all, batch_all, page_all, ret, calc, popup>>
    \/ \E i \in 1..MaxStarting, ok, connected \in BOOLEAN :
          OnStartSessionResume(i, ok, connected) /\ UNCHANGED <<rest_all, popup>>
    \/ \E t \in Senders :
          /\ OnStopSession(t)
          /\ stopped' = stopped \cup ({t} \cap Tabs)
          /\ UNCHANGED <<stream_all, batch_all, page_all, ret, calc, popup>>
    \/ \E t \in Senders : OnAudioChunk(t) /\ UNCHANGED <<rest_all, popup>>
    \/ \E t \in Tabs :
          /\ OnTabRemoved(t)
          /\ stopped' = stopped \cup {t}
          /\ UNCHANGED <<stream_all, batch_all, page_all, ret, calc, popup>>

SpecStop == InitCoordinator /\ [][NextStop]_vars

C3_ExhaustedStaysFailed ==
    /\ (ev.kind = "reject" /\ ev.arg = "timer" /\ hist.failedAttempts = maxReconnectAttempts)
           => live.connectionState = "failed"
    /\ hist.exhausted => (timeouts = <<>> /\ net.pend["timer"] = 0)

DelayTable == <<1000, 2000, 4000, 8000, 16000>>

\* C4: every pending reconnection attempt has a number n in 1..5 and the
\* delay min(1000 * 2^(n-1), 30000), that is 1000, 2000, 4000, 8000, 16000;
\* a task that schedules an attempt increments the counter by exactly one.
C4_BackoffDelays ==
    /\ \A i \in 1..Len(timeouts) :
           /\ timeouts[i].attempt \in 1..maxReconnectAttempts
           /\ timeouts[i].delay = DelayTable[timeouts[i].attempt]
           /\ timeouts[i].delay <= 30000
    /\ ev.sched = 1 =>
           /\ live.reconnectAttempts = ev.attempts + 1
           /\ timeouts[Len(timeouts)].attempt = live.reconnectAttempts

\* C4 happens: the fifth attempt is scheduled, 16000 ms ahead
C4_Witness ==
    /\ ev.sched = 1
    /\ live.reconnectAttempts = 5
    /\ timeouts[Len(timeouts)] = [attempt |-> 5, delay |-> 16000]

\* C5: a close event that the remote side caused, arriving with fewer than
\* 5 attempts made, leaves the state Reconnecting and schedules an attempt.
C5_UnintentionalCloseReconnects ==
    (ev.kind = "close" /\ ev.arg = "remote" /\ ev.attempts < maxReconnectAttempts) =>
        /\ live.connectionState = "reconnecting"
        /\ ev.sched = 1

\* C9: a message that completes a turn whose fragments are not blank passes
\* exactly their concatenation to the display callback, once, and leaves the
\* turn buffer empty; a message that completes no turn calls nothing.
C9_TurnDeliveredOnce ==
    ev.kind = "message" =>
        /\ (ev.arg = "turnComplete" /\ NotBlank(ev.turn)) =>
               (ev.cb = <<ev.turn>> /\ live.currentTurnText = <<>>)
        /\ ev.arg /= "turnComplete" => ev.cb = <<>>

(***************************************************************************)
(* Claims about the batch sessions                                         *)
(***************************************************************************)
RECURSIVE Flatten(_)
Flatten(ss) == IF ss = <<>> THEN <<>> ELSE Head(ss) \o Flatten(Tail(ss))

\* the chunks of s captured since the current startAudioProcessing
ThisRun(s) == SelectSeq(s, LAMBDA c : c >= bh.runStart)

\* the interval timer of the current startAudioProcessing is live
CaptureRunning == batch.captureTimer /\ batch.analyserNode

\* C6: in batch mode at most one generateContent request is in flight at
\* any time, whatever the order of ticks, responses, disconnect() and a
\* later connect()/startAudioProcessing() on the same object.
C6_OneRequestInFlight == Len(inflight) <= 1

\* C7: while capture is running, the chunks captured since it started are,
\* in capture order and each exactly once, the chunks of the batches
\* submitted since then followed by the chunks still queued; a tick that runs
\* while a submission is in flight leaves the batch in flight as submitted
\* and queues its chunk for a later batch.
C7_ChunksBatchedOnceInOrder ==
    CaptureRunning =>
        /\ ThisRun(Flatten(bh.sent) \o batch.audioBufferQueue)
               = [k \in 1..(bh.next - bh.runStart) |-> bh.runStart + k - 1]
        /\ \A i \in 1..Len(inflight) :
               \/ ThisRun(inflight[i].chunks) = <<>>
               \/ \E j \in 1..Len(bh.sent) : bh.sent[j] = inflight[i].chunks
        /\ (bh.last = "tick" /\ Len(bh.sent) > 0 /\ batch.audioBufferQueue /= <<>>)
               => batch.audioBufferQueue[Len(batch.audioBufferQueue)] = bh.next - 1

C7_Witness ==
    /\ CaptureRunning
    /\ bh.last = "tick"
    /\ Len(bh.sent) = 2
    /\ inflight /= <<>>
    /\ Len(batch.audioBufferQueue) = 1

C1_AtMostOneCapturing == Cardinality(Capturing) <= 1

Quiescent == InFlight = 0

\* C11: whenever no startAudioCapture or stopAudioCapture call is in
\* progress, a registered video has isCapturing = true if and only if a
\* transcription session is active for it, also after a play event whose
\* session start the background rejected.
C11_CapturingIffSessionActive ==
    Quiescent =>
        /\ \A v \in Capturing : bg.activeSessions
        /\ bg.activeSessions => Capturing /= {}

\* C12: when a stopAudioCapture started by a pause or ended event of a
\* capturing video has completed, the video has isCapturing = false, no
\* audioProcessingTimer, no audioStream and no subtitleElement, and none of
\* its capture timers is left to fire, however the pause interleaves with a
\* startAudioCapture still running.
C12_StopLeavesNothingBehind ==
    [][ ( /\ chan.toContent /= <<>>
          /\ Head(chan.toContent).type = "STOP_GEMINI_SESSION"
          /\ Head(chan.toContent).v = PauseListener
          /\ StopResponse(TRUE) ) =>
            LET vi == page'.video[Head(chan.toContent).other]
            IN /\ ~vi.isCapturing /\ ~vi.audioProcessingTimer /\ ~vi.audioStream
               /\ ~vi.subtitleElement /\ vi.liveTimers = 0
      ]_vars

\* C13: translation is enabled and a key is stored; the last event of the page
\* is a play on a registered video whose stream acquisition succeeds (no
\* pause, ended, toggle or other play follows it); once every request is
\* answered the video has isCapturing = true and an active capture timer,
\* also when the play came while a stopAudioCapture of that video was waiting
\* for the answer to STOP_GEMINI_SESSION.
C13_PlayEndsCapturing ==
    (Quiescent /\ played /= 0 /\ bg.apiKey) =>
        LET vi == page.video[played]
        IN vi.isCapturing /\ vi.audioProcessingTimer /\ vi.liveTimers > 0

\* C14: disconnect() leaves no capture timer and no reconnection timeout
\* behind, and from then on, as long as connect() is not called again, the
\* state stays Disconnected, the object holds no open remote session and the
\* capture does not restart; also when a reconnection attempt's connect() is
\* in flight or more than one reconnection is scheduled.  (A connect() a
\* caller started before the disconnect() and that has not returned is left
\* out.)
C14_DisconnectIsFinal ==
    [][ /\ Disconnect =>
            /\ ~live'.captureTimer
            /\ intervals' = 0
            /\ timeouts' = <<>>
        /\ ( /\ hist.disconnectCalled
             /\ live.connectionState = "disconnected"
             /\ net.pend["user"] = 0 /\ net.pend["manual"] = 0
             /\ ~(Connect \/ ManualReconnect) ) =>
            /\ live'.connectionState = "disconnected"
            /\ live'.session /= "open"
            /\ ~live'.captureTimer
      ]_vars

C16_StopFlushesRemainder ==
    [][ BatchStopAudioProcessing =>
            IF inflight /= <<>>
            THEN inflight' = inflight
            ELSE batch.audioBufferQueue /= <<>> =>
                    /\ Len(inflight') = 1
                    /\ inflight'[1].chunks = batch.audioBufferQueue
      ]_vars

\* C17: the task that handles a failed generateContent request leaves
\* connectionState as it was, passes nothing to the display callback and
\* leaves isProcessing = false; and a tick that reaches the batch threshold
\* while isProcessing is false (as it is after a failure) starts a new
\* request holding the whole queue.
C17_FailedSubmissionSkipped ==
    [][ /\ bh'.last = "failed" =>
               /\ batch'.connectionState = batch.connectionState
               /\ bh'.cb = <<>>
               /\ ~batch'.isProcessing
        /\ ( /\ BatchTick
             /\ batch.analyserNode
             /\ ~batch.isProcessing
             /\ bh'.sent = bh.sent ) =>
               ~thresholdReached(batch')
        /\ (BatchTick /\ bh'.sent /= bh.sent) =>
               /\ Len(inflight') = Len(inflight) + 1
               /\ inflight'[Len(inflight')].chunks = Append(batch.audioBufferQueue, bh.next)
               /\ batch'.isProcessing
      ]_vars

\* C17 happens: a request has just failed while the capture runs, and the
\* queue is one chunk short of the threshold
C17_Witness ==
    /\ bh.last = "failed"
    /\ CaptureRunning
    /\ Len(batch.audioBufferQueue) = 3
    /\ inflight = <<>>

\* C18: when the ai.live.connect of a connect() called by a caller (the
\* initial connect of the streaming session) has rejected, connectionState
\* is Failed, not Connecting, and no reconnection is scheduled.
C18_FailedConnectSetsFailed ==
    (ev.kind = "reject" /\ ev.arg = "user") =>
        /\ live.connectionState = "failed"
        /\ ev.sched = 0

\* C19: the streaming session's connectionState is Failed only when the
\* retry budget is used up: the retry counter has reached
\* maxReconnectAttempts.
C19_FailedOnlyWhenExhausted ==
    live.connectionState = "failed" => live.reconnectAttempts >= maxReconnectAttempts

\* the START_GEMINI_SESSION requests among the requests q on their way
StartsSent(q) == Cardinality({ i \in 1..Len(q) : q[i].type = "START_GEMINI_SESSION" })

\* C20: the task in which captureAudioFromVideo fails for a play event of
\* video v leaves the record of v registered with isCapturing = false and
\* audioStream = null, sends no START_GEMINI_SESSION and creates no timer.
C20_FailedAcquisitionLeavesIdle ==
    [][ ch'.last = "acquireFailed" =>
            LET v == ch'.v
            IN /\ v <= page'.registered
               /\ ~page'.video[v].isCapturing
               /\ ~page'.video[v].audioStream
               /\ page'.video[v].liveTimers = page.video[v].liveTimers
               /\ page'.video[v].audioProcessingTimer = page.video[v].audioProcessingTimer
               /\ StartsSent(chan'.toBackground) = StartsSent(chan.toBackground)
      ]_vars

\* C20 happens: the acquisition has just failed for a play on a registered
\* video while translation is enabled and a key is stored
C20_Witness ==
    /\ ch.last = "acquireFailed"
    /\ ch.v <= page.registered
    /\ page.isEnabled
    /\ bg.apiKey
    /\ page.video[ch.v].liveTimers > 0

\* C21: registerVideoElement called for a registered element leaves the
\* registry, the element's VideoInfo and its listeners as they were; every
\* registered element has one play listener, so one play event calls
\* startAudioCapture once.
C21_RegisterIdempotent ==
    [][ /\ \A v \in Videos : (Register(v) /\ v <= page.registered) => page' = page
        /\ \A v \in Videos :
               page'.listeners[v] = IF v <= page'.registered THEN 1 ELSE 0
      ]_vars

\* C21 happens: registerVideoElement has just been called again for an
\* element that is capturing with its timer running
C21_Witness ==
    /\ ch.last = "registerAgain"
    /\ page.video[ch.v].isCapturing
    /\ page.video[ch.v].audioProcessingTimer

\* C23 as stated: manualReconnect() on a session that is not connected
\* resets reconnectAttempts and issues one connect attempt.
C23_AlwaysOneConnect ==
    [][ (ret'.of = "call" /\ live.connectionState /= "connected") =>
            /\ live'.reconnectAttempts = 0
            /\ net'.pend = [net.pend EXCEPT !["manual"] = @ + 1]
      ]_vars

\* C23, amended: manualReconnect() on a connected session returns true and
\* changes nothing; otherwise it resets reconnectAttempts to 0 and, when a
\* subtitle callback is registered, issues one connect attempt, and without
\* one returns false and issues none.  It returns true iff the state is
\* connected once the attempt resolves, false when the attempt throws, and
\* schedules no reconnection timeout.
C23_ManualReconnect ==
    [][ /\ (ret'.of = "call" /\ ManualReconnect) =>
              /\ timeouts' = timeouts
              /\ IF live.connectionState = "connected"
                 THEN ret'.value = "true" /\ live' = live /\ net' = net
                 ELSE /\ live'.reconnectAttempts = 0
                      /\ IF live.updateSubtitleCallback
                         THEN /\ ret'.value = "awaiting"
                              /\ net'.pend = [net.pend EXCEPT !["manual"] = @ + 1]
                         ELSE ret'.value = "false" /\ net' = net
        /\ (ret'.of = "resolve" /\ ConnectResolve("manual")) =>
              /\ ret'.value = "true" <=> live'.connectionState = "connected"
              /\ timeouts' = timeouts
        /\ (ret'.of = "reject" /\ ConnectReject("manual")) =>
              /\ ret'.value = "false"
              /\ timeouts' = timeouts
      ]_vars

\* C23 happens: manualReconnect() was called on a session that had lost its
\* connection while capturing, and its attempt has just resolved
C23_Witness ==
    /\ ret.of = "resolve"
    /\ live.currentMediaStream
    /\ live.captureTimer

\* k is x = p / q (q > 0) truncated toward zero
IsTruncated(k, p, q) ==
    IF p >= 0 THEN k * q <= p /\ p < (k + 1) * q
    ELSE k * q >= p /\ p > (k - 1) * q

RECURSIVE StartOf(_, _)
\* the sum of the lengths of the first i - 1 buffers of q
StartOf(q, i) == IF i = 1 THEN 0 ELSE StartOf(q, i - 1) + Len(q[i - 1])

\* C25: combineAudioBuffers concatenates in queue order: the length of the
\* result is the sum of the lengths of the chunks, and the sample at the sum
\* of the earlier lengths plus j is sample j of chunk i.
C25_CombineConcatenates ==
    (calc.op \in {"combine", "liveCombine"} /\ calc.done) =>
        /\ ~calc.threw
        /\ Len(calc.output) = StartOf(calc.input, Len(calc.input) + 1)
        /\ \A i \in 1..Len(calc.input) : \A j \in 1..Len(calc.input[i]) :
              calc.output[StartOf(calc.input, i) + j] = calc.input[i][j]

\* C25 happens: a queue of two different non-empty chunks has been combined
C25_Witness ==
    /\ calc.op = "combine" /\ calc.done
    /\ Len(calc.input) = 2
    /\ Len(calc.input[1]) > 0 /\ Len(calc.input[2]) > 0
    /\ calc.input[1] /= calc.input[2]

\* C26: handleSave with an empty or whitespace-only input writes nothing to
\* storage, leaves savedKey unchanged and sets the error 'API key cannot be
\* empty'; a key written to storage is the trimmed, non-empty input; the
\* popup never stores an empty key.
C26_NoEmptyKeyStored ==
    [][ /\ (Save /\ \A i \in 1..Len(popup.apiKey) : popup.apiKey[i] = " ") =>
              /\ storage' = storage
              /\ popup'.pending = "none"
              /\ popup'.savedKey = popup.savedKey
              /\ popup'.error = "API key cannot be empty"
        /\ \A ok \in BOOLEAN : (SaveDone(ok) /\ storage' /= storage) =>
              /\ \E i, j \in 1..Len(popup.apiKey) :
                    /\ storage' = SubSeq(popup.apiKey, i, j)
                    /\ \A k \in 1..Len(popup.apiKey) : (k < i \/ k > j) => popup.apiKey[k] = " "
              /\ storage' /= <<>>
              /\ Head(storage') /= " " /\ storage'[Len(storage')] /= " "
        /\ (storage' /= storage /\ storage' = <<>>) => ClearDone(TRUE)
      ]_vars

\* C26 happens: with a key stored, Save has been clicked on an input of
\* spaces
C26_Witness ==
    /\ popup.error = "API key cannot be empty"
    /\ popup.apiKey /= <<>>
    /\ storage /= <<>>
    /\ popup.savedKey = storage

\* C27: after a successful Clear the stored key is removed and the input and
\* savedKey are empty; when the removal fails the input and savedKey are
\* unchanged and the error 'Failed to clear API key' is shown; in both cases
\* loading is false when the operation finishes.
C27_ClearOutcome ==
    [][ /\ ClearDone(TRUE) =>
              /\ storage' = <<>>
              /\ popup'.apiKey = <<>> /\ popup'.savedKey = <<>>
              /\ ~popup'.loading
        /\ ClearDone(FALSE) =>
              /\ storage' = storage
              /\ popup'.apiKey = popup.apiKey /\ popup'.savedKey = popup.savedKey
              /\ popup'.error = "Failed to clear API key"
              /\ ~popup'.loading
      ]_vars

\* C27 happens: a Clear has failed on a popup whose input differs from the
\* saved key
C27_Witness ==
    /\ popup.error = "Failed to clear API key"
    /\ popup.savedKey /= <<>>
    /\ popup.apiKey /= popup.savedKey
    /\ out.log /= <<>>

\* C22: every message the coordinator handles is answered with an object
\* whose success is a boolean and which carries an error text when success
\* is false; the handler never rejects.
C22_EveryMessageAcknowledged ==
    \A i \in 1..Len(out.acks) :
        /\ out.acks[i].kind = "ack"
        /\ out.acks[i].success \in BOOLEAN
        /\ ~out.acks[i].success => out.acks[i].error /= NoText

\* the number of session objects of tab t that are created and not
\* disconnected
Live(c, t) == c.unrecorded[t] + (IF c.activeSessions[t] = "none" THEN 0 ELSE 1)

\* C30: each tab has at most one live session object, and it is the one
\* recorded in activeSessions; a START for a tab that has a session creates
\* no session and answers success.
C30_OneLiveSessionPerTab ==
    [][ /\ \A t \in Tabs :
              /\ Live(coord', t) <= 1
              /\ coord'.unrecorded[t] = 0
        /\ \A t \in Tabs : (OnStartSession(t) /\ coord.activeSessions[t] /= "none") =>
              /\ coord'.unrecorded = coord.unrecorded
              /\ coord'.activeSessions = coord.activeSessions
              /\ out'.acks = <<Ack(TRUE, NoText)>>
      ]_vars

Credentials == {k \in Strings : k /= <<>>}

\* C29: the API credential appears in no console entry and in the error
\* text of no answer, whatever is saved, cleared, started, stopped or fails.
C29_KeyNeverLogged ==
    /\ \A i \in 1..Len(out.log) : out.log[i].arg.val \notin Credentials
    /\ \A i \in 1..Len(out.acks) : out.acks[i].error.val \notin Credentials

\* C29 happens: with a key stored, a session start has failed and its error
\* has been logged and answered
C29_Witness ==
    /\ storage /= <<>>
    /\ Len(out.log) > 0
    /\ Len(out.acks) > 0
    /\ ~out.acks[1].success
    /\ out.acks[1].error = StorageError

\* C31: a tab whose STOP request or removal has been handled, with no START
\* request issued for it since, has no entry in activeSessions and no live
\* session object, also when a START of the tab was awaiting its storage
\* read at that moment; a STOP for a tab without a session answers success
\* and changes nothing.
C31_StoppedTabHasNoSession ==
    [][ /\ \A t \in stopped' :
              /\ coord'.activeSessions[t] = "none"
              /\ Live(coord', t) = 0
        /\ \A t \in Tabs : (OnStopSession(t) /\ coord.activeSessions[t] = "none") =>
              /\ coord' = coord
              /\ storage' = storage
              /\ out'.acks = <<Ack(TRUE, NoText)>>
      ]_vars

\* the connections of the session object that are open
OpenConns(s, n) == (IF s.session = "open" THEN 1 ELSE 0) + n.orphans

\* C32: the session object has at most one open remote connection and at
\* most one pending reconnection timeout, and a connect is issued only when
\* no connection of the object is open, no connect of a reconnection is
\* under way and no reconnection timeout is pending.
C32_OneConnectionOnePending ==
    [][ /\ OpenConns(live', net') <= 1
        /\ Len(timeouts') <= 1
        /\ PendTotal(net') > PendTotal(net) =>
              /\ OpenConns(live, net) = 0
              /\ net.pend["timer"] + net.pend["manual"] = 0
              /\ Len(timeouts') = 0
      ]_vars

\* the timers a handle accounts for: one when the handle is set, none when
\* it is null
Held(handle) == IF handle THEN 1 ELSE 0

\* C33: the capture timers running for a streaming session, for a batch
\* session and for a video are those their timer handle refers to: one at
\* most, none once a stop or disconnect has cleared the handle, and never
\* one whose handle a later timer has overwritten.
C33_OneCaptureTimer ==
    /\ intervals = Held(live.captureTimer)
    /\ bIntervals = Held(batch.captureTimer)
    /\ \A v \in Videos : page.video[v].liveTimers = Held(page.video[v].audioProcessingTimer)

\* C34: a capture tick of the streaming session that sends a chunk finds the
\* connection state Connected and sends over the open connection the
\* session field refers to; in the states Connecting, Reconnecting, Failed
\* and Disconnected no chunk is sent.
C34_ChunksOnlyWhileConnected ==
    ev.kind = "chunk" =>
        /\ live.connectionState = "connected"
        /\ ev.arg = "open"

\* C35: once a turn-complete message has been handled the turn buffer is
\* empty, whether the turn was blank or not, and the display callback is
\* never called with an empty or whitespace-only text.
C35_TurnBufferEmptyAfterTurn ==
    /\ (ev.kind = "message" /\ ev.arg = "turnComplete") => live.currentTurnText = <<>>
    /\ \A i \in 1..Len(ev.cb) : NotBlank(ev.cb[i])

\* C36: while translation is disabled and no startAudioCapture or
\* stopAudioCapture call is in progress, no registered video has
\* isCapturing = true or a capture timer, whatever play events and calls in
\* progress the TOGGLE_TRANSLATION message met.
C36_DisabledMeansNoCapture ==
    (~page.isEnabled /\ Quiescent) =>
        \A v \in 1..page.registered :
            /\ ~page.video[v].isCapturing
            /\ ~page.video[v].audioProcessingTimer
            /\ page.video[v].liveTimers = 0

\* C37: a SEND_AUDIO_CHUNK the coordinator answers with success = true has
\* been handed to the remote speech service by the session of the tab: one
\* chunk per acknowledged message, in the order of the messages.
C37_AcknowledgedChunkForwarded ==
    [][ \A t \in Tabs :
            (OnAudioChunk(t) /\ out'.acks = <<Ack(TRUE, NoText)>>) =>
                out'.sent = <<t>>
      ]_vars

\* C38: with timers that fire and connect attempts that resolve or reject,
\* a session that an unintentional close has put into the state
\* Reconnecting reaches the state Connected, Failed or Disconnected; it does
\* not stay in Reconnecting or Connecting forever.
C38_ReconnectionEnds ==
    (live.connectionState = "reconnecting")
        ~> (live.connectionState \in {"connected", "failed", "disconnected"})

\* C38 happens: after a close the session has made all its attempts, each
\* has been rejected, and it has given up with nothing left pending
C38_Witness ==
    /\ live.connectionState = "failed"
    /\ live.reconnectAttempts = maxReconnectAttempts
    /\ hist.exhausted
    /\ timeouts = <<>>
    /\ PendTotal(net) = 0

\* a connect attempt has opened its connection in this step
Opened ==
    /\ PendTotal(net') = PendTotal(net) - 1
    /\ OpenConns(live', net') = OpenConns(live, net) + 1

\* manualReconnect() has issued its connect in this step
ManualIssued == net'.pend["manual"] = net.pend["manual"] + 1

\* C39: reconnectAttempts stays within 0..5; it goes down only to 0, and
\* only when a connect attempt opens or manualReconnect() issues its
\* connect, and both leave it 0; it goes up only by one, and only in a step
\* that schedules a reconnection timeout.
C39_AttemptsCounter ==
    [][ /\ live'.reconnectAttempts \in 0..maxReconnectAttempts
        /\ live'.reconnectAttempts < live.reconnectAttempts =>
              /\ live'.reconnectAttempts = 0
              /\ Opened \/ ManualIssued
        /\ (Opened \/ ManualIssued) => live'.reconnectAttempts = 0
        /\ live'.reconnectAttempts > live.reconnectAttempts =>
              /\ live'.reconnectAttempts = live.reconnectAttempts + 1
              /\ Len(timeouts') = Len(timeouts) + 1
              /\ timeouts'[Len(timeouts')].attempt = live'.reconnectAttempts
      ]_vars

\* C39 happens: the fifth reconnection attempt is under way
C39_Witness ==
    /\ live.reconnectAttempts = maxReconnectAttempts
    /\ live.connectionState = "connecting"
    /\ net.pend["timer"] > 0

====
